---- MODULE Spec2Model ----
(***************************************************************************)
(* Model of the log-field codec of src/proxy/logging/LogAccess.cc: the     *)
(* marshal_* field encoders, the unmarshal_* decoders and                  *)
(* resolve_logfield_string.                                                *)
(*                                                                         *)
(* Memory is modelled byte by byte.  A cell holds a byte 0..255, or Undef  *)
(* when the program never stored into it (malloc'ed or stack memory).      *)
(* A C string is a sequence of non-zero bytes; NULLSTR is the null pointer.*)
(***************************************************************************)
EXTENDS Integers, Sequences, FiniteSets, TLC

\* ------------------------------------------------------------------ bounds

\* longest format (number of fields) handed to resolve_logfield_string
MaxFields == 2
\* largest destination capacity handed to a decoder in the codec harness
MaxCap == 6
\* width in bits of the modelled integers (the program's are 64 bits wide)
IntBits == 12

\* ------------------------------------------------------------- constants

INK_MIN_ALIGN == 8
MARSHAL_RECORD_LENGTH == 32
DEFAULT_STR_LEN == 1

\* a cell the program has not stored into
Undef == -1
\* in a write vector: a cell the call leaves alone
NoWrite == -2
\* the null char pointer
NULLSTR == <<-1>>

DEFAULT_STR == <<45>>

\* "!INVALID_STR!"
INVALID_STR_INIT == <<33, 73, 78, 86, 65, 76, 73, 68, 95, 83, 84, 82, 33>>

MinInt == -(2 ^ (IntBits - 1))
MaxInt == (2 ^ (IntBits - 1)) - 1

\* ------------------------------------------------------------- utilities

Min(a, b) == IF a < b THEN a ELSE b

Max(a, b) == IF a > b THEN a ELSE b

Range(s) == {s[i] : i \in 1 .. Len(s)}

Fill(n, c) == [i \in 1 .. n |-> c]

Take(s, n) == SubSeq(s, 1, Min(n, Len(s)))

INK_ALIGN_DEFAULT(x) == ((x + INK_MIN_ALIGN - 1) \div INK_MIN_ALIGN) * INK_MIN_ALIGN

round_strlen(len) == INK_ALIGN_DEFAULT(len)

\* LogAccess::strlen: the padded width of a string as it is stored
LogAccess_strlen(str) ==
  IF str = NULLSTR \/ str = <<>>
    THEN round_strlen(DEFAULT_STR_LEN + 1)
    ELSE round_strlen(Len(str) + 1)

\* ::strlen on memory: cells from offset off (0-based) up to the first NUL.
\* A scan that meets no NUL runs to the end of the modelled memory.
c_strlen(mem, off) ==
  IF \E k \in off + 1 .. Len(mem) : mem[k] = 0
    THEN (CHOOSE k \in off + 1 .. Len(mem) :
            mem[k] = 0 /\ \A j \in off + 1 .. k - 1 : mem[j] # 0) - (off + 1)
    ELSE Len(mem) - off

\* the C string stored at offset off
c_str(mem, off) == SubSeq(mem, off + 1, off + c_strlen(mem, off))

\* ink_strlcpy(dst, src, size): at most size-1 bytes and a NUL; nothing at
\* all when size is 0.  The result is the vector of bytes written.
ink_strlcpy(src, size) ==
  IF size <= 0 THEN <<>> ELSE Take(src, size - 1) \o <<0>>

\* ---------------------------------------------------------------- texts

\* decimal digits of a natural number, most significant first
RECURSIVE Digits(_)
Digits(n) == IF n < 10 THEN <<48 + n>> ELSE Digits(n \div 10) \o <<48 + (n % 10)>>

\* the canonical decimal text of an integer
CanonicalDecimal(v) == IF v < 0 THEN <<45>> \o Digits(-v) ELSE Digits(v)

\* "RECORD_NOT_FOUND"
RECORD_NOT_FOUND_MSG == <<82, 69, 67, 79, 82, 68, 95, 78, 79, 84, 95, 70, 79, 85, 78, 68>>

\* "INVALID_RECORD"
INVALID_RECORD_MSG == <<73, 78, 86, 65, 76, 73, 68, 95, 82, 69, 67, 79, 82, 68>>

\* "INVALID_MgmtType"
INVALID_MGMTTYPE_MSG == <<73, 78, 86, 65, 76, 73, 68, 95, 77, 103, 109, 116, 84, 121, 112, 101>>

\* "NULL"
NULL_MSG == <<78, 85, 76, 76>>

\* "***"
ASTERISKS_MSG == <<42, 42, 42>>

\* ------------------------------------------------------ scalar encoding

\* byte i (0 = least significant) of the 64-bit two's complement of v
Int64Byte(v, i) ==
  IF i >= 3 THEN (IF v >= 0 THEN 0 ELSE 255)
  ELSE IF v >= 0 THEN (v \div (256 ^ i)) % 256
  ELSE 255 - (((-v - 1) \div (256 ^ i)) % 256)

\* marshal_int: one alignment unit holding the value
marshal_int(v) == [i \in 1 .. INK_MIN_ALIGN |-> Int64Byte(v, i - 1)]

\* the value of the integer stored at offset off
Int64At(mem, off) ==
  IF mem[off + INK_MIN_ALIGN] >= 128
    THEN -((255 - mem[off + 1]) + 256 * (255 - mem[off + 2]) + 65536 * (255 - mem[off + 3])) - 1
    ELSE mem[off + 1] + 256 * mem[off + 2] + 65536 * mem[off + 3]

\* ------------------------------------------------------ string encoding

\* marshal_str(dest, source, padded_len): the bytes stored at dest
marshal_str(source, padded_len, debug) ==
  LET src == IF source = NULLSTR \/ source = <<>> \/ padded_len = 0
               THEN DEFAULT_STR ELSE source
      w == ink_strlcpy(src, padded_len)
      real_len == Len(src) + 1
  IN IF debug /\ real_len < padded_len
       THEN w \o Fill(padded_len - real_len, 36)
       ELSE w

\* marshal_mem(dest, source, actual_len, padded_len): the bytes stored at
\* dest.  source is the memory the pointer refers to, from the pointer on.
marshal_mem(source, actual_len, padded_len, debug) ==
  LET dflt == source = NULLSTR \/ source = <<>> \/ source[1] = 0 \/ actual_len = 0
      src == IF dflt THEN DEFAULT_STR ELSE source
      alen == IF dflt THEN DEFAULT_STR_LEN ELSE actual_len
      body == [i \in 1 .. alen |-> IF i <= Len(src) THEN src[i] ELSE Undef]
      w == body \o <<0>>
      real_len == alen + 1
  IN IF debug /\ real_len < padded_len
       THEN w \o Fill(padded_len - real_len, 36)
       ELSE w

\* ------------------------------------------------------------- pointers

\* A char pointer is an object of the heap and an offset into it.
Ptr(o, k) == [obj |-> o, off |-> k]

NULLP == Ptr("NULL", 0)

INVALID_STR == Ptr("INVALID_STR", 0)

HeapObjects ==
  {"INVALID_STR", "url", "url_canon", "unmapped", "unmapped_canon", "lookup", "lookup_canon", "path"}

\* the memory a pointer refers to, from the pointer to the end of its object
MemFrom(h, p) ==
  IF p = NULLP THEN NULLSTR ELSE SubSeq(h[p.obj], p.off + 1, Len(h[p.obj]))

\* the first n bytes a pointer refers to; bytes past the object are Undef
MemRead(h, p, n) ==
  LET m == MemFrom(h, p)
  IN [i \in 1 .. n |-> IF i <= Len(m) THEN m[i] ELSE Undef]

\* memchr(p, c, n): offset of the first c among the n bytes at p, or -1
memchr(h, p, c, n) ==
  LET m == MemRead(h, p, Max(n, 0))
  IN IF \E i \in 1 .. Len(m) : m[i] = c
       THEN (CHOOSE i \in 1 .. Len(m) : m[i] = c /\ \A j \in 1 .. i - 1 : m[j] # c) - 1
       ELSE -1

\* a write vector laid over another at offset off
Overlay(base, off, w) ==
  [i \in 1 .. (IF w = <<>> THEN Len(base) ELSE Max(Len(base), off + Len(w))) |->
     IF i > off /\ i <= off + Len(w) /\ w[i - off] # NoWrite THEN w[i - off]
     ELSE IF i <= Len(base) THEN base[i] ELSE NoWrite]

\* ------------------------------------------------ Encoding::escapify_url

\* bytes the URL escaper replaces by %XX
EscapifySpecials == {32, 34, 60, 62}

HexDigitUpper(n) == IF n >= 10 THEN 65 + (n - 10) ELSE 48 + n

EscapifyByte(c) ==
  IF c \in EscapifySpecials
    THEN <<37, HexDigitUpper(c \div 16), HexDigitUpper(c % 16)>>
    ELSE <<c>>

RECURSIVE EscapifyText(_)
EscapifyText(s) ==
  IF s = <<>> THEN <<>> ELSE EscapifyByte(Head(s)) \o EscapifyText(Tail(s))

\* escapify_url(arena, url, len_in, &len_out): the source pointer itself when
\* nothing needs escaping, else a new string of the arena (object newobj)
escapify_url(h, p, len_in, newobj) ==
  IF p = NULLP
    THEN [ptr |-> NULLP, len |-> 0, heap |-> h, allocs |-> 0]
    ELSE LET Escaped(e) ==
               [ptr |-> Ptr(newobj, 0), len |-> Len(e),
                heap |-> [h EXCEPT ![newobj] = e \o <<0>>], allocs |-> 1]
             With(s) ==
               IF Range(s) \cap EscapifySpecials = {}
                 THEN [ptr |-> p, len |-> len_in, heap |-> h, allocs |-> 0]
                 ELSE Escaped(EscapifyText(s))
         IN With(MemRead(h, p, len_in))

\* ------------------------------------------------------- the context

\* A LogAccess object after construction: every member is null or zero.
CtxNew ==
  [m_client_request |-> FALSE, m_server_response |-> FALSE, m_cache_response |-> FALSE,
   m_client_req_url_str |-> NULLP, m_client_req_url_len |-> 0,
   m_client_req_url_canon_str |-> NULLP, m_client_req_url_canon_len |-> 0,
   m_client_req_url_path_str |-> NULLP, m_client_req_url_path_len |-> 0,
   m_client_req_unmapped_url_canon_str |-> NULLP, m_client_req_unmapped_url_canon_len |-> 0,
   m_client_req_unmapped_url_path_str |-> NULLP, m_client_req_unmapped_url_path_len |-> 0,
   m_client_req_unmapped_url_host_str |-> NULLP, m_client_req_unmapped_url_host_len |-> 0,
   m_cache_lookup_url_canon_str |-> NULLP, m_cache_lookup_url_canon_len |-> 0,
   arena |-> 0]

\* The heap before any context is initialised: the process-wide sentinel
\* and the strings the transaction t owns.
HeapNew(t) ==
  [o \in HeapObjects |->
     CASE o = "INVALID_STR" -> INVALID_STR_INIT \o <<0>>
       [] o = "unmapped" -> IF t.unmapped = NULLSTR THEN <<>> ELSE t.unmapped
       [] o = "lookup" -> IF t.lookup = NULLSTR THEN <<>> ELSE t.lookup
       [] o = "path" -> t.path
       [] OTHER -> <<>>]

\* LogAccess::init (the client request, and which responses are valid)
LogAccess_init(c, h, t) ==
  IF t.client_request_valid
    THEN LET h1 == [h EXCEPT !["url"] = t.url \o <<0>>]
             e == escapify_url(h1, Ptr("url", 0), Len(t.url), "url_canon")
         IN [ctx |-> [c EXCEPT !.m_client_request = TRUE,
                               !.m_server_response = t.server_response_valid,
                               !.m_cache_response = t.cache_response_valid,
                               !.m_client_req_url_str = Ptr("url", 0),
                               !.m_client_req_url_len = Len(t.url),
                               !.m_client_req_url_canon_str = e.ptr,
                               !.m_client_req_url_canon_len = e.len,
                               !.m_client_req_url_path_str = Ptr("path", 0),
                               !.m_client_req_url_path_len = Len(t.path),
                               !.arena = c.arena + 1 + e.allocs],
             heap |-> e.heap]
    ELSE [ctx |-> [c EXCEPT !.m_server_response = t.server_response_valid,
                            !.m_cache_response = t.cache_response_valid],
          heap |-> h]

\* validate_unmapped_url without the store of the sentinel: an absent source
\* leaves the cached pointer null
validate_unmapped_url_unmarked(c, h, t) ==
  IF c.m_client_req_unmapped_url_canon_str = NULLP
       /\ t.unmapped # NULLSTR /\ t.unmapped # <<>> /\ t.unmapped[1] # 0
    THEN LET e == escapify_url(h, Ptr("unmapped", 0), Len(t.unmapped), "unmapped_canon")
         IN [ctx |-> [c EXCEPT !.m_client_req_unmapped_url_canon_str = e.ptr,
                               !.m_client_req_unmapped_url_canon_len = e.len,
                               !.arena = c.arena + e.allocs],
             heap |-> e.heap]
    ELSE [ctx |-> c, heap |-> h]

\* LogAccess::validate_unmapped_url
validate_unmapped_url(c, h, t) ==
  IF c.m_client_req_unmapped_url_canon_str = NULLP
    THEN IF t.unmapped # NULLSTR /\ t.unmapped # <<>> /\ t.unmapped[1] # 0
           THEN LET e == escapify_url(h, Ptr("unmapped", 0), Len(t.unmapped), "unmapped_canon")
                IN [ctx |-> [c EXCEPT !.m_client_req_unmapped_url_canon_str = e.ptr,
                                      !.m_client_req_unmapped_url_canon_len = e.len,
                                      !.arena = c.arena + e.allocs],
                    heap |-> e.heap]
           ELSE [ctx |-> [c EXCEPT !.m_client_req_unmapped_url_canon_str = INVALID_STR],
                 heap |-> h]
    ELSE [ctx |-> c, heap |-> h]

\* LogAccess::validate_lookup_url
validate_lookup_url(c, h, t) ==
  IF c.m_cache_lookup_url_canon_str = NULLP
    THEN IF t.lookup # NULLSTR /\ t.lookup # <<>> /\ t.lookup[1] # 0
           THEN LET e == escapify_url(h, Ptr("lookup", 0), Len(t.lookup), "lookup_canon")
                IN [ctx |-> [c EXCEPT !.m_cache_lookup_url_canon_str = e.ptr,
                                      !.m_cache_lookup_url_canon_len = e.len,
                                      !.arena = c.arena + e.allocs],
                    heap |-> e.heap]
           ELSE [ctx |-> [c EXCEPT !.m_cache_lookup_url_canon_str = INVALID_STR],
                 heap |-> h]
    ELSE [ctx |-> c, heap |-> h]

\* validate_unmapped_url_path without the search for the first '/' of the
\* host: the host runs to the end of the string and the path stays whole
validate_unmapped_url_path_no_split(c, h) ==
  LET canon == c.m_client_req_unmapped_url_canon_str
      plen == c.m_client_req_unmapped_url_canon_len
      c0 == [c EXCEPT !.m_client_req_unmapped_url_path_str = canon,
                      !.m_client_req_unmapped_url_path_len = plen,
                      !.m_client_req_unmapped_url_host_str = INVALID_STR]
      Scheme(colon, after) ==
        IF colon >= 0 /\ colon <= 5
             /\ colon + 2 <= plen /\ after[colon + 2] = 47 /\ after[colon + 3] = 47
          THEN [c0 EXCEPT !.m_client_req_unmapped_url_host_str = Ptr(canon.obj, canon.off + colon + 3),
                          !.m_client_req_unmapped_url_host_len = plen - (colon + 3)]
          ELSE c0
      Colon(colon) == Scheme(colon, MemRead(h, canon, colon + 3))
  IN IF c.m_client_req_unmapped_url_path_str = NULLP /\ c.m_client_req_unmapped_url_host_str = NULLP
       THEN IF plen >= 6 THEN Colon(memchr(h, canon, 58, plen - 1)) ELSE c0
       ELSE c

\* LogAccess::validate_unmapped_url_path.  c[2] is read without a check
\* that it lies within the string; a byte past the object reads as Undef.
validate_unmapped_url_path(c, h) ==
  LET canon == c.m_client_req_unmapped_url_canon_str
      plen == c.m_client_req_unmapped_url_canon_len
      c0 == [c EXCEPT !.m_client_req_unmapped_url_path_str = canon,
                      !.m_client_req_unmapped_url_path_len = plen,
                      !.m_client_req_unmapped_url_host_str = INVALID_STR]
      \* the host and the path, once "://" is found at offset len - 3
      Split(len, host, slash) ==
        IF plen - len > 0 /\ slash >= 0
          THEN [c0 EXCEPT !.m_client_req_unmapped_url_host_str = host,
                          !.m_client_req_unmapped_url_host_len = slash,
                          !.m_client_req_unmapped_url_path_str = Ptr(host.obj, host.off + slash),
                          !.m_client_req_unmapped_url_path_len = plen - len - slash]
          ELSE [c0 EXCEPT !.m_client_req_unmapped_url_host_str = host,
                          !.m_client_req_unmapped_url_host_len = plen - len]
      Host(len, host) == Split(len, host, memchr(h, host, 47, plen - len))
      Scheme(colon, after) ==
        IF colon >= 0 /\ colon <= 5
             /\ colon + 2 <= plen /\ after[colon + 2] = 47 /\ after[colon + 3] = 47
          THEN Host(colon + 3, Ptr(canon.obj, canon.off + colon + 3))
          ELSE c0
      Colon(colon) == Scheme(colon, MemRead(h, canon, colon + 3))
  IN IF c.m_client_req_unmapped_url_path_str = NULLP /\ c.m_client_req_unmapped_url_host_str = NULLP
       THEN IF plen >= 6 THEN Colon(memchr(h, canon, 58, plen - 1)) ELSE c0
       ELSE c

\* -------------------------------------------------------------- setters
\* A setter takes the context c, the heap h, the string buf (NULLSTR for a
\* null pointer) and len.  It yields the context and the heap it leaves
\* behind, the pointer ptr it stored through and the bytes w it stored
\* there (<<>> when it stored nothing).  Bytes that fall outside the object
\* of ptr, or behind a null ptr, are in w but not in the heap.

Set(c, h, p, w) ==
  [ctx |-> c,
   heap |-> IF p = NULLP \/ w = <<>> THEN h
            ELSE [h EXCEPT ![p.obj] =
                    SubSeq(Overlay(h[p.obj], p.off, w), 1, Len(h[p.obj]))],
   ptr |-> p, w |-> w]

\* memcpy(dst, src, n): the bytes stored at dst
memcpy(src, n) == [i \in 1 .. n |-> IF i <= Len(src) THEN src[i] ELSE 0]

set_client_req_url(c, h, buf, len) ==
  IF buf # NULLSTR
    THEN LET n == Min(len, c.m_client_req_url_len)
         IN Set([c EXCEPT !.m_client_req_url_len = n], h,
                c.m_client_req_url_str, ink_strlcpy(buf, n + 1))
    ELSE Set(c, h, NULLP, <<>>)

set_client_req_url_canon(c, h, buf, len) ==
  IF buf # NULLSTR
    THEN LET n == Min(len, c.m_client_req_url_canon_len)
         IN Set([c EXCEPT !.m_client_req_url_canon_len = n], h,
                c.m_client_req_url_canon_str, ink_strlcpy(buf, n + 1))
    ELSE Set(c, h, NULLP, <<>>)

set_client_req_unmapped_url_canon(c, h, buf, len) ==
  IF buf # NULLSTR /\ c.m_client_req_unmapped_url_canon_str # NULLP
    THEN LET n == Min(len, c.m_client_req_unmapped_url_canon_len)
         IN Set([c EXCEPT !.m_client_req_unmapped_url_canon_len = n], h,
                c.m_client_req_unmapped_url_canon_str, memcpy(buf, n))
    ELSE Set(c, h, NULLP, <<>>)

set_client_req_unmapped_url_path(c, h, buf, len) ==
  IF buf # NULLSTR /\ c.m_client_req_unmapped_url_path_str # NULLP
    THEN LET n == Min(len, c.m_client_req_unmapped_url_path_len)
         IN Set([c EXCEPT !.m_client_req_unmapped_url_path_len = n], h,
                c.m_client_req_unmapped_url_path_str, ink_strlcpy(buf, n + 1))
    ELSE Set(c, h, NULLP, <<>>)

set_client_req_unmapped_url_host(c, h, buf, len) ==
  IF buf # NULLSTR /\ c.m_client_req_unmapped_url_host_str # NULLP
    THEN LET n == Min(len, c.m_client_req_unmapped_url_host_len)
         IN Set([c EXCEPT !.m_client_req_unmapped_url_host_len = n], h,
                c.m_client_req_unmapped_url_host_str, ink_strlcpy(buf, n + 1))
    ELSE Set(c, h, NULLP, <<>>)

set_client_req_url_path(c, h, buf, len) ==
  set_client_req_unmapped_url_path(c, h, buf, len)

Setters ==
  {"set_client_req_url", "set_client_req_url_canon", "set_client_req_unmapped_url_canon",
   "set_client_req_unmapped_url_path", "set_client_req_unmapped_url_host",
   "set_client_req_url_path"}

\* the setter of a name
Setter(s, c, h, buf, len) ==
  CASE s = "set_client_req_url" -> set_client_req_url(c, h, buf, len)
    [] s = "set_client_req_url_canon" -> set_client_req_url_canon(c, h, buf, len)
    [] s = "set_client_req_unmapped_url_canon" -> set_client_req_unmapped_url_canon(c, h, buf, len)
    [] s = "set_client_req_unmapped_url_path" -> set_client_req_unmapped_url_path(c, h, buf, len)
    [] s = "set_client_req_unmapped_url_host" -> set_client_req_unmapped_url_host(c, h, buf, len)
    [] s = "set_client_req_url_path" -> set_client_req_url_path(c, h, buf, len)

\* ------------------------------------------------------- field encoders
\* Every encoder takes the context c, the heap h, the transaction t, the
\* build flag dbg (DEBUG defined) and fill (a destination is given), and
\* yields the returned length, the bytes stored at the destination, and the
\* context and heap it leaves behind.

Ret(n, w, c, h) == [len |-> n, w |-> w, ctx |-> c, heap |-> h]

\* a scalar field: marshal_client_host_port and the like
marshal_client_host_port(c, h, t, dbg, fill) ==
  Ret(INK_MIN_ALIGN, IF fill THEN marshal_int(t.port) ELSE <<>>, c, h)

\* ink_atoi64(str, len) on an unsigned decimal text: the value of its
\* leading digits
RECURSIVE ink_atoi64(_)
ink_atoi64(str) ==
  LET Value(n) == IF n = 0 THEN 0
                  ELSE 10 * ink_atoi64(SubSeq(str, 1, n - 1)) + (str[n] - 48)
      IsDigit(i) == str[i] >= 48 /\ str[i] <= 57
  IN IF \A i \in 1 .. Len(str) : IsDigit(i)
       THEN Value(Len(str))
       ELSE ink_atoi64(SubSeq(str, 1,
              (CHOOSE i \in 1 .. Len(str) : ~IsDigit(i) /\ \A j \in 1 .. i - 1 : IsDigit(j)) - 1))

\* marshal_file_size: the size after the '/' of Content-Range unless it is
\* '*', else the body bytes of the server or of the cache when positive
marshal_file_size(c, h, t, dbg, fill) ==
  LET str == t.content_range
      Sized(rest) ==
        IF 42 \in Range(rest) THEN <<>> ELSE marshal_int(ink_atoi64(rest))
      Slash(pos) ==
        IF pos = 0 THEN <<>> ELSE Sized(SubSeq(str, pos + 1, Len(str)))
      w == IF (c.m_server_response \/ c.m_cache_response) /\ str # NULLSTR
             THEN Slash(IF 47 \in Range(str)
                          THEN CHOOSE i \in 1 .. Len(str) :
                                 str[i] = 47 /\ \A j \in 1 .. i - 1 : str[j] # 47
                          ELSE 0)
             ELSE IF t.server_response_body_bytes > 0
               THEN marshal_int(t.server_response_body_bytes)
               ELSE IF t.cache_response_body_bytes > 0
                 THEN marshal_int(t.cache_response_body_bytes)
                 ELSE <<>>
  IN Ret(INK_MIN_ALIGN, IF fill THEN w ELSE <<>>, c, h)

marshal_server_resp_squid_len(c, h, t, dbg, fill) ==
  LET val == IF c.m_server_response
               THEN t.server_response_length + t.server_response_body_bytes ELSE 0
  IN Ret(INK_MIN_ALIGN, IF fill THEN marshal_int(val) ELSE <<>>, c, h)

\* marshal_proxy_host_name without its test of the destination
marshal_proxy_host_name_unchecked(c, h, t, dbg, fill) ==
  LET str == t.host_name
      len0 == IF str = NULLSTR THEN 0 ELSE Len(str)
      len == INK_ALIGN_DEFAULT(len0 + 1)
  IN Ret(len, marshal_str(str, len, dbg), c, h)

marshal_proxy_host_name(c, h, t, dbg, fill) ==
  LET str == t.host_name
      len0 == IF str = NULLSTR THEN 0 ELSE Len(str)
      len == INK_ALIGN_DEFAULT(len0 + 1)
  IN Ret(len, IF fill THEN marshal_str(str, len, dbg) ELSE <<>>, c, h)

marshal_plugin_identity_tag(c, h, t, dbg, fill) ==
  LET tag == IF t.plugin_tag = NULLSTR THEN <<42>> ELSE t.plugin_tag
      len == IF t.plugin_tag = NULLSTR THEN INK_MIN_ALIGN ELSE LogAccess_strlen(tag)
  IN Ret(len, IF fill THEN marshal_str(tag, len, dbg) ELSE <<>>, c, h)

marshal_client_auth_user_name(c, h, t, dbg, fill) ==
  Ret(INK_MIN_ALIGN, IF fill THEN marshal_str(NULLSTR, INK_MIN_ALIGN, dbg) ELSE <<>>, c, h)

marshal_server_host_name(c, h, t, dbg, fill) ==
  LET str == IF t.server THEN t.server_name ELSE NULLSTR
      len == IF t.server THEN LogAccess_strlen(str) ELSE INK_MIN_ALIGN
  IN Ret(len, IF fill THEN marshal_str(str, len, dbg) ELSE <<>>, c, h)

marshal_proxy_protocol_authority(c, h, t, dbg, fill) ==
  IF fill /\ t.authority # NULLSTR
    THEN Ret(Len(t.authority), marshal_str(t.authority, Len(t.authority), dbg), c, h)
    ELSE Ret(0, <<>>, c, h)

marshal_client_req_http_method(c, h, t, dbg, fill) ==
  LET str == IF c.m_client_request THEN t.method ELSE <<>>
      plen == IF c.m_client_request /\ str # <<>>
                THEN round_strlen(Len(str) + 1) ELSE INK_MIN_ALIGN
  IN Ret(plen, IF fill THEN marshal_mem(str, Len(str), plen, dbg) ELSE <<>>, c, h)

marshal_client_req_url(c, h, t, dbg, fill) ==
  LET len == round_strlen(c.m_client_req_url_len + 1)
  IN Ret(len,
         IF fill THEN marshal_mem(MemFrom(h, c.m_client_req_url_str), c.m_client_req_url_len, len, dbg)
                 ELSE <<>>,
         c, h)

marshal_client_req_url_canon(c, h, t, dbg, fill) ==
  LET len == round_strlen(c.m_client_req_url_canon_len + 1)
  IN Ret(len,
         IF fill THEN marshal_mem(MemFrom(h, c.m_client_req_url_canon_str),
                                  c.m_client_req_url_canon_len, len, dbg)
                 ELSE <<>>,
         c, h)

marshal_client_req_url_path(c, h, t, dbg, fill) ==
  LET len == round_strlen(c.m_client_req_url_path_len + 1)
  IN Ret(len,
         IF fill THEN marshal_mem(MemFrom(h, c.m_client_req_url_path_str),
                                  c.m_client_req_url_path_len, len, dbg)
                 ELSE <<>>,
         c, h)

marshal_client_req_unmapped_url_canon(c, h, t, dbg, fill) ==
  LET Validated(c1, h1, len) ==
        IF c1.m_client_req_unmapped_url_canon_str = INVALID_STR
          THEN marshal_client_req_url_canon(c1, h1, t, dbg, fill)
          ELSE Ret(len,
                   IF fill THEN marshal_mem(MemFrom(h1, c1.m_client_req_unmapped_url_canon_str),
                                            c1.m_client_req_unmapped_url_canon_len, len, dbg)
                           ELSE <<>>,
                   c1, h1)
      With(v) == Validated(v.ctx, v.heap, round_strlen(v.ctx.m_client_req_unmapped_url_canon_len + 1))
  IN With(validate_unmapped_url(c, h, t))

marshal_client_req_unmapped_url_path(c, h, t, dbg, fill) ==
  LET Validated(c2, h1, len) ==
        IF c2.m_client_req_unmapped_url_path_str = INVALID_STR
          THEN marshal_client_req_url_path(c2, h1, t, dbg, fill)
          ELSE Ret(len,
                   IF fill THEN marshal_mem(MemFrom(h1, c2.m_client_req_unmapped_url_path_str),
                                            c2.m_client_req_unmapped_url_path_len, len, dbg)
                           ELSE <<>>,
                   c2, h1)
      WithPath(c2, h1) == Validated(c2, h1, round_strlen(c2.m_client_req_unmapped_url_path_len + 1))
      With(v) == WithPath(validate_unmapped_url_path(v.ctx, v.heap), v.heap)
  IN With(validate_unmapped_url(c, h, t))

marshal_client_req_unmapped_url_host(c, h, t, dbg, fill) ==
  LET Validated(c2, h1, len) ==
        Ret(len,
            IF fill THEN marshal_mem(MemFrom(h1, c2.m_client_req_unmapped_url_host_str),
                                     c2.m_client_req_unmapped_url_host_len, len, dbg)
                    ELSE <<>>,
            c2, h1)
      WithPath(c2, h1) == Validated(c2, h1, round_strlen(c2.m_client_req_unmapped_url_host_len + 1))
      With(v) == WithPath(validate_unmapped_url_path(v.ctx, v.heap), v.heap)
  IN With(validate_unmapped_url(c, h, t))

marshal_cache_lookup_url_canon(c, h, t, dbg, fill) ==
  LET Validated(c1, h1, len) ==
        IF c1.m_cache_lookup_url_canon_str = INVALID_STR
          THEN marshal_client_req_url_canon(c1, h1, t, dbg, fill)
          ELSE Ret(len,
                   IF fill THEN marshal_mem(MemFrom(h1, c1.m_cache_lookup_url_canon_str),
                                            c1.m_cache_lookup_url_canon_len, len, dbg)
                           ELSE <<>>,
                   c1, h1)
      With(v) == Validated(v.ctx, v.heap, round_strlen(v.ctx.m_cache_lookup_url_canon_len + 1))
  IN With(validate_lookup_url(c, h, t))

marshal_client_req_http_version(c, h, t, dbg, fill) ==
  LET major == IF c.m_client_request THEN t.version[1] ELSE 0
      minor == IF c.m_client_request THEN t.version[2] ELSE 0
  IN Ret(2 * INK_MIN_ALIGN,
         IF fill THEN marshal_int(major) \o marshal_int(minor) ELSE <<>>,
         c, h)

marshal_client_req_text(c, h, t, dbg, fill) ==
  LET q1 == marshal_client_req_http_method(c, h, t, dbg, FALSE)
      q2 == marshal_client_req_url(c, h, t, dbg, FALSE)
      q3 == marshal_client_req_http_version(c, h, t, dbg, FALSE)
      f1 == marshal_client_req_http_method(c, h, t, dbg, TRUE)
      f2 == marshal_client_req_url(c, h, t, dbg, TRUE)
      f3 == marshal_client_req_http_version(c, h, t, dbg, TRUE)
      Joined(r1, r2, r3) ==
        Ret(r1.len + r2.len + r3.len,
            Overlay(Overlay(r1.w, r1.len, r2.w), r1.len + r2.len, r3.w), c, h)
  IN IF fill THEN Joined(f1, f2, f3) ELSE Ret(q1.len + q2.len + q3.len, <<>>, c, h)

\* ------------------------------------------------------------ addresses

AF_UNSPEC == 0
AF_UNIX == 1
AF_INET == 2
AF_INET6 == 10
TS_UNIX_SIZE == 108

\* sizeof(LogFieldIp), sizeof(LogFieldIp4), sizeof(LogFieldIp6), sizeof(LogFieldUn)
SizeofLogFieldIp == 2
SizeofLogFieldIp4 == 8
SizeofLogFieldIp6 == 20
SizeofLogFieldUn == 110
\* offset of _addr in LogFieldIp4 and LogFieldIp6, and of _path in LogFieldUn
AddrOffset == 4
PathOffset == 2

\* the uint16 family tag as it lies in memory
FamilyBytes(f) == <<f, 0>>

\* strncpy(dst, src, n): the string, then NULs up to n bytes
strncpy(src, n) == [i \in 1 .. n |-> IF i <= Len(src) THEN src[i] ELSE 0]

\* LogAccess::marshal_ip.  ip.family is "null" for a null pointer.  The
\* local LogFieldIpStorage starts out indeterminate.
marshal_ip(ip, fill) ==
  LET fresh == Fill(SizeofLogFieldUn, Undef)
      data ==
        CASE ip.family = "inet" ->
               IF fill THEN Overlay(Overlay(fresh, 0, FamilyBytes(AF_INET)), AddrOffset, ip.addr)
                       ELSE fresh
          [] ip.family = "inet6" ->
               IF fill THEN Overlay(Overlay(fresh, 0, FamilyBytes(AF_INET6)), AddrOffset, ip.addr)
                       ELSE fresh
          [] ip.family = "unix" ->
               IF fill THEN Overlay(Overlay(fresh, 0, FamilyBytes(AF_UNIX)), PathOffset,
                                    strncpy(ip.addr, TS_UNIX_SIZE))
                       ELSE fresh
          [] OTHER -> Overlay(fresh, 0, FamilyBytes(AF_UNSPEC))
      len ==
        CASE ip.family = "inet" -> SizeofLogFieldIp4
          [] ip.family = "inet6" -> SizeofLogFieldIp6
          [] ip.family = "unix" -> SizeofLogFieldUn
          [] OTHER -> SizeofLogFieldIp
  IN [len |-> INK_ALIGN_DEFAULT(len), w |-> IF fill THEN SubSeq(data, 1, len) ELSE <<>>]

marshal_client_host_ip(c, h, t, dbg, fill) ==
  LET With(r) == Ret(r.len, r.w, c, h) IN With(marshal_ip(t.ip, fill))

\* -------------------------------------------------------------- records

\* RecGetRecordString(record, buf, buf_len): the value cut to buf_len - 1
RecGetRecordString(sval, buf_len) == Take(sval, buf_len - 1)

\* marshal_record returning the length of the text it stored
marshal_record_text_length(rec, fill) ==
  IF fill
    THEN [len |-> Len(CanonicalDecimal(rec.ival)) + 1, w |-> CanonicalDecimal(rec.ival) \o <<0>>]
    ELSE [len |-> MARSHAL_RECORD_LENGTH, w |-> <<>>]

\* LogAccess::marshal_record.  rec.rtype is "ERR" when RecGetRecordDataType
\* fails (the metrics are then looked up), else the record's data type.
marshal_record(rec, fill) ==
  LET max_chars == MARSHAL_RECORD_LENGTH
      sv == RecGetRecordString(rec.sval, max_chars)
      cut == SubSeq(sv, 1, max_chars - 4) \o <<46, 46, 46>>
      ftext == IF Len(rec.ftext) + 1 > max_chars THEN ASTERISKS_MSG ELSE rec.ftext
      out ==
        CASE rec.rtype = "ERR" ->
               IF rec.found THEN CanonicalDecimal(rec.ival) ELSE INVALID_RECORD_MSG
          [] rec.rtype \in {"INT", "COUNTER"} ->
               IF rec.found THEN CanonicalDecimal(rec.ival) ELSE RECORD_NOT_FOUND_MSG
          [] rec.rtype = "FLOAT" ->
               IF rec.found THEN ftext ELSE RECORD_NOT_FOUND_MSG
          [] rec.rtype = "STRING" ->
               IF rec.found
                 THEN IF Len(sv) > 0
                        THEN (IF Len(sv) + 1 = max_chars THEN cut ELSE sv)
                        ELSE NULL_MSG
                 ELSE RECORD_NOT_FOUND_MSG
          [] OTHER -> INVALID_MGMTTYPE_MSG
  IN IF fill
       THEN [len |-> max_chars, w |-> out \o <<0>>]
       ELSE [len |-> max_chars, w |-> <<>>]

marshal_record_field(c, h, t, dbg, fill) ==
  LET With(r) == Ret(r.len, r.w, c, h) IN With(marshal_record(t.record, fill))

\* -------------------------------------------------------- header fields

\* the values of the duplicates of a field, joined by sep
RECURSIVE JoinDups(_, _)
JoinDups(vals, sep) ==
  IF vals = <<>> THEN <<>>
  ELSE IF Len(vals) = 1 THEN Head(vals)
  ELSE Head(vals) \o sep \o JoinDups(Tail(vals), sep)

\* LogAccess::marshal_http_header_field for the client request container.
\* t.hdr holds the values of the field's duplicates; empty when the field
\* is not in the header.
marshal_http_header_field(c, h, t, dbg, fill) ==
  LET valid_field == c.m_client_request /\ t.hdr # <<>>
      body == JoinDups(t.hdr, <<44, 32>>)
      running_len == Len(body) + 1
      padded_len == round_strlen(running_len)
      w == body \o <<0>> \o (IF dbg THEN Fill(padded_len - running_len, 36) ELSE <<>>)
  IN IF valid_field
       THEN Ret(padded_len, IF fill THEN w ELSE <<>>, c, h)
       ELSE Ret(INK_MIN_ALIGN,
                IF fill THEN marshal_str(NULLSTR, INK_MIN_ALIGN, dbg) ELSE <<>>, c, h)

EscapifyDups(vals) == [i \in 1 .. Len(vals) |-> EscapifyText(vals[i])]

\* LogAccess::marshal_http_header_field_escapify for the client request
\* container: every value goes through escapify_url, which allocates from
\* the arena when the value needs escaping.
marshal_http_header_field_escapify(c, h, t, dbg, fill) ==
  LET valid_field == c.m_client_request /\ t.hdr # <<>>
      body == JoinDups(EscapifyDups(t.hdr), <<44, 37, 50, 48>>)
      allocs == Cardinality({i \in 1 .. Len(t.hdr) : Range(t.hdr[i]) \cap EscapifySpecials # {}})
      running_len == Len(body) + 1
      padded_len == round_strlen(running_len)
      w == body \o <<0>> \o (IF dbg THEN Fill(padded_len - running_len, 36) ELSE <<>>)
      c2 == [c EXCEPT !.arena = c.arena + allocs]
  IN IF valid_field
       THEN Ret(padded_len, IF fill THEN w ELSE <<>>, c2, h)
       ELSE Ret(INK_MIN_ALIGN,
                IF fill THEN marshal_str(NULLSTR, INK_MIN_ALIGN, dbg) ELSE <<>>, c, h)

\* ------------------------------------------------------------ dispatch

Fields ==
  {"client_host_port", "proxy_host_name", "plugin_identity_tag", "client_auth_user_name",
   "server_host_name", "proxy_protocol_authority", "client_req_http_method",
   "client_req_url", "client_req_url_canon", "client_req_url_path",
   "client_req_unmapped_url_canon", "client_req_unmapped_url_path",
   "client_req_unmapped_url_host", "cache_lookup_url_canon",
   "client_req_http_version", "client_req_text", "client_host_ip", "record",
   "http_header_field", "http_header_field_escapify"}

\* the fields whose encoder stores one integer
ScalarFields == {"client_host_port", "file_size", "server_resp_squid_len"}

\* the marshal function bound to a field
Marshal(f, c, h, t, dbg, fill) ==
  CASE f = "client_host_port" -> marshal_client_host_port(c, h, t, dbg, fill)
    [] f = "file_size" -> marshal_file_size(c, h, t, dbg, fill)
    [] f = "server_resp_squid_len" -> marshal_server_resp_squid_len(c, h, t, dbg, fill)
    [] f = "proxy_host_name" -> marshal_proxy_host_name(c, h, t, dbg, fill)
    [] f = "plugin_identity_tag" -> marshal_plugin_identity_tag(c, h, t, dbg, fill)
    [] f = "client_auth_user_name" -> marshal_client_auth_user_name(c, h, t, dbg, fill)
    [] f = "server_host_name" -> marshal_server_host_name(c, h, t, dbg, fill)
    [] f = "proxy_protocol_authority" -> marshal_proxy_protocol_authority(c, h, t, dbg, fill)
    [] f = "client_req_http_method" -> marshal_client_req_http_method(c, h, t, dbg, fill)
    [] f = "client_req_url" -> marshal_client_req_url(c, h, t, dbg, fill)
    [] f = "client_req_url_canon" -> marshal_client_req_url_canon(c, h, t, dbg, fill)
    [] f = "client_req_url_path" -> marshal_client_req_url_path(c, h, t, dbg, fill)
    [] f = "client_req_unmapped_url_canon" -> marshal_client_req_unmapped_url_canon(c, h, t, dbg, fill)
    [] f = "client_req_unmapped_url_path" -> marshal_client_req_unmapped_url_path(c, h, t, dbg, fill)
    [] f = "client_req_unmapped_url_host" -> marshal_client_req_unmapped_url_host(c, h, t, dbg, fill)
    [] f = "cache_lookup_url_canon" -> marshal_cache_lookup_url_canon(c, h, t, dbg, fill)
    [] f = "client_req_http_version" -> marshal_client_req_http_version(c, h, t, dbg, fill)
    [] f = "client_req_text" -> marshal_client_req_text(c, h, t, dbg, fill)
    [] f = "client_host_ip" -> marshal_client_host_ip(c, h, t, dbg, fill)
    [] f = "record" -> marshal_record_field(c, h, t, dbg, fill)
    [] f = "http_header_field" -> marshal_http_header_field(c, h, t, dbg, fill)
    [] f = "http_header_field_escapify" -> marshal_http_header_field_escapify(c, h, t, dbg, fill)

\* ------------------------------------------------------------- decoders
\* A decoder reads the encoded memory mem at the cursor off (0-based) and
\* is given a destination of capacity len.  It yields the returned count
\* (-1 on overrun), the cursor advance adv, and the write vector w of the
\* bytes it stored at dest[0], dest[1], ...

Dec(r, a, w) == [ret |-> r, adv |-> a, w |-> w]

\* C division and remainder (truncation toward zero)
CDiv(a, b) == IF a >= 0 THEN a \div b ELSE -((-a) \div b)

CMod(a, b) == a - b * CDiv(a, b)

\* val = -val in the width of the integer type: the most negative value
\* wraps to itself
NegateWrap(v) == IF v = MinInt THEN MinInt ELSE -v

\* the digits unmarshal_itoa stores, least significant stored first
RECURSIVE ItoaDigits(_)
ItoaDigits(val) ==
  IF CDiv(val, 10) = 0 THEN <<48 + CMod(val, 10)>>
  ELSE ItoaDigits(CDiv(val, 10)) \o <<48 + CMod(val, 10)>>

\* LogAccess::unmarshal_itoa: the text that ends at dest
unmarshal_itoa(val, field_width, leading_char) ==
  LET Padded(digits) ==
        IF Len(digits) < field_width
          THEN Fill(field_width - Len(digits), leading_char) \o digits
          ELSE digits
  IN IF val < 0
       THEN <<45>> \o Padded(ItoaDigits(NegateWrap(val)))
       ELSE Padded(ItoaDigits(val))

\* LogAccess::unmarshal_int
unmarshal_int(mem, off) == [val |-> Int64At(mem, off), adv |-> INK_MIN_ALIGN]

\* LogAccess::unmarshal_int_to_str
unmarshal_int_to_str(mem, off, len) ==
  LET Copy(text, adv) ==
        IF Len(text) < len THEN Dec(Len(text), adv, text) ELSE Dec(-1, adv, <<>>)
      With(i) == Copy(unmarshal_itoa(i.val, 0, 32), i.adv)
  IN With(unmarshal_int(mem, off))

\* unmarshal_http_status formatting as unmarshal_int_to_str does
unmarshal_http_status_unpadded(mem, off, len) ==
  LET Copy(text, adv) ==
        IF Len(text) < len THEN Dec(Len(text), adv, text) ELSE Dec(-1, adv, <<>>)
      With(i) == Copy(unmarshal_itoa(i.val, 0, 32), i.adv)
  IN With(unmarshal_int(mem, off))

\* LogAccess::unmarshal_http_status
unmarshal_http_status(mem, off, len) ==
  LET Copy(text, adv) ==
        IF Len(text) < len THEN Dec(Len(text), adv, text) ELSE Dec(-1, adv, <<>>)
      With(i) == Copy(unmarshal_itoa(i.val, 3, 48), i.adv)
  IN With(unmarshal_int(mem, off))

\* two decimal digits
TwoDigits(n) == <<48 + (n \div 10), 48 + (n % 10)>>

\* LogUtils::timestamp_to_date_str for a time within a day of the epoch, in
\* UTC: "1970-01-01" or "1969-12-31"
timestamp_to_date_str(value) ==
  IF value >= 0
    THEN <<49, 57, 55, 48, 45, 48, 49, 45, 48, 49>>
    ELSE <<49, 57, 54, 57, 45, 49, 50, 45, 51, 49>>

\* LogUtils::timestamp_to_time_str in UTC: "hh:mm:ss"
timestamp_to_time_str(value) ==
  LET s == value % 86400
  IN TwoDigits(s \div 3600) \o <<58>> \o TwoDigits((s % 3600) \div 60)
       \o <<58>> \o TwoDigits(s % 60)

\* LogAccess::unmarshal_int_to_date_str
unmarshal_int_to_date_str(mem, off, len) ==
  LET Copy(strval, adv) ==
        IF Len(strval) > len THEN Dec(-1, adv, <<>>) ELSE Dec(Len(strval), adv, strval)
      With(i) == Copy(timestamp_to_date_str(i.val), i.adv)
  IN With(unmarshal_int(mem, off))

\* LogAccess::unmarshal_int_to_time_str
unmarshal_int_to_time_str(mem, off, len) ==
  LET Copy(strval, adv) ==
        IF Len(strval) > len THEN Dec(-1, adv, <<>>) ELSE Dec(Len(strval), adv, strval)
      With(i) == Copy(timestamp_to_time_str(i.val), i.adv)
  IN With(unmarshal_int(mem, off))

\* ------------------------------------------------------ alias decoding

\* LogFieldAliasMap::asString(key, buf, bufLen, &numChars).  A map is a
\* function from its valid codes to their labels.
asString(map, key, bufLen) ==
  IF key \in DOMAIN map
    THEN IF Len(map[key]) < bufLen
           THEN [status |-> "ALL_OK", numChars |-> Len(map[key]), w |-> map[key] \o <<0>>]
           ELSE [status |-> "BUFFER_TOO_SMALL", numChars |-> 0, w |-> <<>>]
    ELSE [status |-> "INVALID_INT", numChars |-> 0, w |-> <<>>]

\* unmarshal_with_map that stores the bare code for a code without a label
unmarshal_with_map_bare_code(code, len, map, msg) ==
  LET invalidCodeMsg == CanonicalDecimal(code)
      With(r) ==
        CASE r.status = "INVALID_INT" ->
               IF msg # NULLSTR
                 THEN IF Len(invalidCodeMsg) < 64 /\ Len(invalidCodeMsg) < len
                        THEN [ret |-> Len(invalidCodeMsg), w |-> ink_strlcpy(invalidCodeMsg, len)]
                        ELSE [ret |-> -1, w |-> <<>>]
                 ELSE [ret |-> -1, w |-> <<>>]
          [] r.status = "BUFFER_TOO_SMALL" -> [ret |-> -1, w |-> <<>>]
          [] OTHER -> [ret |-> r.numChars, w |-> r.w]
  IN With(asString(map, code, len))

\* LogAccess::unmarshal_with_map.  snprintf("%s(%" PRId64 ")", msg, code)
\* into invalidCodeMsg[64] gives the length of the whole text.
unmarshal_with_map(code, len, map, msg) ==
  LET invalidCodeMsg == msg \o <<40>> \o CanonicalDecimal(code) \o <<41>>
      With(r) ==
        CASE r.status = "INVALID_INT" ->
               IF msg # NULLSTR
                 THEN IF Len(invalidCodeMsg) < 64 /\ Len(invalidCodeMsg) < len
                        THEN [ret |-> Len(invalidCodeMsg), w |-> ink_strlcpy(invalidCodeMsg, len)]
                        ELSE [ret |-> -1, w |-> <<>>]
                 ELSE [ret |-> -1, w |-> <<>>]
          [] r.status = "BUFFER_TOO_SMALL" -> [ret |-> -1, w |-> <<>>]
          [] OTHER -> [ret |-> r.numChars, w |-> r.w]
  IN With(asString(map, code, len))

\* the fallback prefix of each alias decoder
AliasMsg(dec) ==
  CASE dec = "unmarshal_hierarchy" -> <<73, 78, 86, 65, 76, 73, 68, 95, 67, 79, 68, 69>>   \* "INVALID_CODE"
    [] dec = "unmarshal_finish_status" -> <<85, 78, 75, 78, 79, 87, 78, 95, 70, 73, 78, 73, 83, 72, 95, 67, 79, 68, 69>>   \* "UNKNOWN_FINISH_CODE"
    [] dec = "unmarshal_cache_code" -> <<69, 82, 82, 79, 82, 95, 85, 78, 75, 78, 79, 87, 78>>   \* "ERROR_UNKNOWN"
    [] dec = "unmarshal_cache_hit_miss" -> <<72, 73, 84, 95, 77, 73, 83, 83, 95, 85, 78, 75, 78, 79, 87, 78>>   \* "HIT_MISS_UNKNOWN"
    [] dec = "unmarshal_cache_write_code" -> <<85, 78, 75, 78, 79, 87, 78, 95, 67, 65, 67, 72, 69, 95, 87, 82, 73, 84, 69, 95, 67, 79, 68, 69>>   \* "UNKNOWN_CACHE_WRITE_CODE"

\* LogAccess::unmarshal_hierarchy
unmarshal_hierarchy(mem, off, len, map) ==
  LET With(i, r) == Dec(r.ret, i.adv, r.w)
      Of(i) == With(i, unmarshal_with_map(i.val, len, map, AliasMsg("unmarshal_hierarchy")))
  IN Of(unmarshal_int(mem, off))

\* LogAccess::unmarshal_finish_status
unmarshal_finish_status(mem, off, len, map) ==
  LET With(i, r) == Dec(r.ret, i.adv, r.w)
      Of(i) == With(i, unmarshal_with_map(i.val, len, map, AliasMsg("unmarshal_finish_status")))
  IN Of(unmarshal_int(mem, off))

\* LogAccess::unmarshal_cache_code
unmarshal_cache_code(mem, off, len, map) ==
  LET With(i, r) == Dec(r.ret, i.adv, r.w)
      Of(i) == With(i, unmarshal_with_map(i.val, len, map, AliasMsg("unmarshal_cache_code")))
  IN Of(unmarshal_int(mem, off))

\* LogAccess::unmarshal_cache_hit_miss
unmarshal_cache_hit_miss(mem, off, len, map) ==
  LET With(i, r) == Dec(r.ret, i.adv, r.w)
      Of(i) == With(i, unmarshal_with_map(i.val, len, map, AliasMsg("unmarshal_cache_hit_miss")))
  IN Of(unmarshal_int(mem, off))

\* LogAccess::unmarshal_cache_write_code
unmarshal_cache_write_code(mem, off, len, map) ==
  LET With(i, r) == Dec(r.ret, i.adv, r.w)
      Of(i) == With(i, unmarshal_with_map(i.val, len, map, AliasMsg("unmarshal_cache_write_code")))
  IN Of(unmarshal_int(mem, off))

\* LogSlice: m_enable, m_start, m_end; an open end is INT_MAX
INT_MAX == 2147483647

NoSlice == [m_enable |-> FALSE, m_start |-> 0, m_end |-> INT_MAX]

\* LogSlice::toStrOffset(strlen, &offset): the resolved length n, and the
\* offset when n is positive
toStrOffset(slice, strlen) ==
  LET i0 == IF slice.m_start >= 0 THEN slice.m_start ELSE slice.m_start + strlen
      i == IF i0 < 0 THEN 0 ELSE i0
      j0 == IF slice.m_end = INT_MAX THEN strlen
            ELSE IF slice.m_end >= 0 THEN slice.m_end ELSE slice.m_end + strlen
      j == IF j0 > strlen THEN strlen ELSE j0
  IN IF i0 >= strlen THEN [n |-> 0, offset |-> 0]
     ELSE IF j0 <= 0 THEN [n |-> 0, offset |-> 0]
     ELSE [n |-> j - i, offset |-> i]

\* EscLookup::result: 0 no escape, 1 long escape, else the short escape char
EscLookup(c) ==
  IF c \in {8, 9, 10, 12, 13, 92, 34, 47}
    THEN (CASE c = 8 -> 98
            [] c = 9 -> 116
            [] c = 10 -> 110
            [] c = 12 -> 102
            [] c = 13 -> 114
            [] OTHER -> c)
    ELSE IF c < 32 \/ c >= 127 THEN 1 ELSE 0

nibble(nib) == IF nib >= 10 THEN 97 + (nib - 10) ELSE 48 + nib

\* what one step of escape_json emits for the byte c
EscapeOne(c) ==
  LET ec == EscLookup(c)
  IN IF ec = 0 THEN <<c>>
     ELSE IF ec = 1 THEN <<92, 117, 48, 48, nibble(c \div 16), nibble(c % 16)>>
     ELSE <<92, ec>>

\* escape_json(dest, buf, len) from input index i on, with out emitted so
\* far: the loop over the len bytes at buf.  With a destination the loop
\* stops before an escape that would pass len output bytes.
RECURSIVE escape_json_from(_, _, _, _, _)
escape_json_from(withDest, buf, len, i, out) ==
  IF i > len THEN out
  ELSE LET c == IF i <= Len(buf) THEN buf[i] ELSE Undef
           e == IF c = Undef THEN <<Undef>> ELSE EscapeOne(c)
       IN IF withDest /\ Len(out) + Len(e) > len
            THEN out
            ELSE escape_json_from(withDest, buf, len, i + 1, out \o e)

\* escape_json: the escaped bytes (stored at dest when it is given)
escape_json(withDest, buf, len) == escape_json_from(withDest, buf, len, 1, <<>>)

\* the memory from cursor off on
MemAt(mem, off) == SubSeq(mem, off + 1, Len(mem))

\* unmarshal_str_json
unmarshal_str_json(mem, off, len, slice) ==
  LET adv == LogAccess_strlen(c_str(mem, off))
      Sliced(so) ==
        IF so.n <= 0 THEN Dec(0, adv, <<>>)
        ELSE IF so.n >= len THEN Dec(-1, adv, <<>>)
        ELSE LET Out(w) == Dec(Len(w), adv, w)
             IN Out(escape_json(TRUE, MemAt(mem, off + so.offset), so.n))
      With(escaped_len) ==
        IF slice.m_enable
          THEN Sliced(toStrOffset(slice, escaped_len))
          ELSE IF escaped_len < len
                 THEN Dec(escaped_len, adv, escape_json(TRUE, MemAt(mem, off), escaped_len))
                 ELSE Dec(-1, adv, <<>>)
  IN With(Len(escape_json(FALSE, MemAt(mem, off), c_strlen(mem, off))))

\* escape_json(dest, buf, len): how many bytes at buf the loop examines,
\* from input index i on with outlen bytes emitted so far.  The byte that
\* makes the loop stop has been read and looked up.
RECURSIVE escape_json_examined(_, _, _, _, _)
escape_json_examined(withDest, buf, len, i, outlen) ==
  IF i > len THEN len
  ELSE LET c == IF i <= Len(buf) THEN buf[i] ELSE Undef
           e == IF c = Undef THEN 1 ELSE Len(EscapeOne(c))
       IN IF withDest /\ outlen + e > len
            THEN i
            ELSE escape_json_examined(withDest, buf, len, i + 1, outlen + e)

\* the offsets from val_buf of the bytes unmarshal_str_json hands to the
\* escaping: those of the measuring call and those of the storing call
unmarshal_str_json_reads(mem, off, len, slice) ==
  LET val_len == c_strlen(mem, off)
      measured == 0 .. val_len - 1
      Stored(offset, n) ==
        {offset + k : k \in 0 .. escape_json_examined(TRUE, MemAt(mem, off + offset), n, 1, 0) - 1}
      Sliced(so) ==
        IF so.n <= 0 \/ so.n >= len THEN {} ELSE Stored(so.offset, so.n)
      With(escaped_len) ==
        IF slice.m_enable
          THEN Sliced(toStrOffset(slice, escaped_len))
          ELSE IF escaped_len < len THEN Stored(0, escaped_len) ELSE {}
  IN measured \cup With(Len(escape_json(FALSE, MemAt(mem, off), val_len)))

\* unmarshal_str copying a slice from the start of the string
unmarshal_str_slice_from_start(mem, off, len, slice, json) ==
  LET adv == LogAccess_strlen(c_str(mem, off))
      Sliced(so) ==
        IF so.n <= 0 THEN Dec(0, adv, <<>>)
        ELSE IF so.n >= len THEN Dec(-1, adv, <<>>)
        ELSE Dec(so.n, adv, SubSeq(mem, off + 1, off + so.n))
      With(val_len) ==
        IF slice.m_enable
          THEN Sliced(toStrOffset(slice, val_len))
          ELSE IF val_len < len THEN Dec(val_len, adv, c_str(mem, off))
          ELSE Dec(-1, adv, <<>>)
  IN IF json THEN unmarshal_str_json(mem, off, len, slice)
     ELSE With(c_strlen(mem, off))

\* LogAccess::unmarshal_str; json is LOG_ESCAPE_JSON == escape_type
unmarshal_str(mem, off, len, slice, json) ==
  LET adv == LogAccess_strlen(c_str(mem, off))
      Sliced(so) ==
        IF so.n <= 0 THEN Dec(0, adv, <<>>)
        ELSE IF so.n >= len THEN Dec(-1, adv, <<>>)
        ELSE Dec(so.n, adv, SubSeq(mem, off + so.offset + 1, off + so.offset + so.n))
      With(val_len) ==
        IF slice.m_enable
          THEN Sliced(toStrOffset(slice, val_len))
          ELSE IF val_len < len THEN Dec(val_len, adv, c_str(mem, off))
          ELSE Dec(-1, adv, <<>>)
  IN IF json THEN unmarshal_str_json(mem, off, len, slice)
     ELSE With(c_strlen(mem, off))

\* LogAccess::unmarshal_record
unmarshal_record(mem, off, len) ==
  LET With(val_len) ==
        IF val_len < len
          THEN Dec(val_len, MARSHAL_RECORD_LENGTH, c_str(mem, off))
          ELSE Dec(-1, MARSHAL_RECORD_LENGTH, <<>>)
  IN With(c_strlen(mem, off))

\* "HTTP/"
HTTP_PREFIX == <<72, 84, 84, 80, 47>>

\* sizeof(val_buf) of unmarshal_http_version
ValBufSize == 128

\* LogAccess::unmarshal_http_version.  val_len is taken before p is moved
\* past the second number.
unmarshal_http_version(mem, off, len) ==
  LET Both(r1, r2) ==
        LET val_buf == HTTP_PREFIX \o r1.w \o <<46>> \o r2.w
            val_len == Len(HTTP_PREFIX) + r1.ret + 1
        IN IF r2.ret < 0 THEN Dec(-1, r1.adv + r2.adv, <<>>)
           ELSE IF val_len < len
                  THEN Dec(val_len, r1.adv + r2.adv, SubSeq(val_buf, 1, val_len))
                  ELSE Dec(-1, r1.adv + r2.adv, <<>>)
      First(r1) ==
        IF r1.ret < 0 THEN Dec(-1, r1.adv, <<>>)
        ELSE Both(r1, unmarshal_int_to_str(mem, off + r1.adv,
                                           ValBufSize - Len(HTTP_PREFIX) - r1.ret - 1))
  IN First(unmarshal_int_to_str(mem, off, ValBufSize - Len(HTTP_PREFIX)))

\* LogAccess::unmarshal_http_text.  The write vector holds every byte the
\* call stores from dest on, the two separators included.
unmarshal_http_text(mem, off, len, slice, json) ==
  LET Third(r1, r2, w2, r3) ==
        IF r3.ret < 0
          THEN Dec(-1, r1.adv + r2.adv + r3.adv, Overlay(w2, r1.ret + r2.ret + 2, r3.w))
          ELSE Dec(r1.ret + r2.ret + r3.ret + 2, r1.adv + r2.adv + r3.adv,
                   Overlay(w2, r1.ret + r2.ret + 2, r3.w))
      Second(r1, w1, r2) ==
        IF r2.ret < 0
          THEN Dec(-1, r1.adv + r2.adv, Overlay(w1, r1.ret + 1, r2.w))
          ELSE Third(r1, r2,
                     Overlay(Overlay(w1, r1.ret + 1, r2.w), r1.ret + 1 + r2.ret, <<32>>),
                     unmarshal_http_version(mem, off + r1.adv + r2.adv,
                                            len - r1.ret - r2.ret - 2))
      First(r1) ==
        IF r1.ret < 0 THEN Dec(-1, r1.adv, r1.w)
        ELSE Second(r1, Overlay(r1.w, r1.ret, <<32>>),
                    unmarshal_str(mem, off + r1.adv, len - r1.ret - 1, slice, json))
  IN First(unmarshal_str(mem, off, len, NoSlice, json))

\* ------------------------------------------------------ address decoding

\* the _family member of the LogFieldIp stored at offset off
FamilyAt(mem, off) == mem[off + 1] + 256 * mem[off + 2]

\* unmarshal_ip without its branch for AF_UNIX
unmarshal_ip_no_unix(mem, off) ==
  LET family == FamilyAt(mem, off)
  IN IF family = AF_INET
       THEN [family |-> "inet", addr |-> SubSeq(mem, off + AddrOffset + 1, off + AddrOffset + 4),
             adv |-> INK_ALIGN_DEFAULT(SizeofLogFieldIp4)]
     ELSE IF family = AF_INET6
       THEN [family |-> "inet6", addr |-> SubSeq(mem, off + AddrOffset + 1, off + AddrOffset + 16),
             adv |-> INK_ALIGN_DEFAULT(SizeofLogFieldIp6)]
     ELSE [family |-> "other", addr |-> <<>>, adv |-> INK_ALIGN_DEFAULT(SizeofLogFieldIp)]

\* LogAccess::unmarshal_ip: the endpoint stored at the cursor
unmarshal_ip(mem, off) ==
  LET family == FamilyAt(mem, off)
  IN IF family = AF_INET
       THEN [family |-> "inet", addr |-> SubSeq(mem, off + AddrOffset + 1, off + AddrOffset + 4),
             adv |-> INK_ALIGN_DEFAULT(SizeofLogFieldIp4)]
     ELSE IF family = AF_INET6
       THEN [family |-> "inet6", addr |-> SubSeq(mem, off + AddrOffset + 1, off + AddrOffset + 16),
             adv |-> INK_ALIGN_DEFAULT(SizeofLogFieldIp6)]
     ELSE IF family = AF_UNIX
       THEN [family |-> "unix",
             addr |-> c_str(SubSeq(mem, off + PathOffset + 1, off + PathOffset + TS_UNIX_SIZE), 0),
             adv |-> INK_ALIGN_DEFAULT(SizeofLogFieldUn)]
     ELSE [family |-> "other", addr |-> <<>>, adv |-> INK_ALIGN_DEFAULT(SizeofLogFieldIp)]

\* the words of s joined by the byte sep
RECURSIVE JoinBy(_, _)
JoinBy(words, sep) ==
  IF words = <<>> THEN <<>>
  ELSE IF Len(words) = 1 THEN Head(words)
  ELSE Head(words) \o <<sep>> \o JoinBy(Tail(words), sep)

\* hexadecimal digits of a natural number, lower case, no leading zeros
RECURSIVE HexText(_)
HexText(n) == IF n < 16 THEN <<nibble(n)>> ELSE HexText(n \div 16) \o <<nibble(n % 16)>>

\* the eight 16-bit groups of an IPv6 address
Groups6(addr) == [k \in 1 .. 8 |-> 256 * addr[2 * k - 1] + addr[2 * k]]

\* the length of the run of zero groups that starts at group k
ZeroRun(g, k) ==
  IF g[k] # 0 THEN 0
  ELSE IF \E j \in k .. 8 : g[j] # 0
         THEN (CHOOSE j \in k .. 8 : g[j] # 0 /\ \A i \in k .. j - 1 : g[i] = 0) - k
         ELSE 9 - k

\* inet_ntop for AF_INET6: the longest run of two or more zero groups
\* (the first of the longest) is written "::"
Ntop6(addr) ==
  LET g == Groups6(addr)
      best == CHOOSE k \in 1 .. 8 :
                /\ \A j \in 1 .. 8 : ZeroRun(g, j) <= ZeroRun(g, k)
                /\ \A j \in 1 .. k - 1 : ZeroRun(g, j) < ZeroRun(g, k)
      text(lo, hi) == JoinBy([k \in 1 .. hi - lo + 1 |-> HexText(g[lo + k - 1])], 58)
  IN IF ZeroRun(g, best) >= 2
       THEN text(1, best - 1) \o <<58, 58>> \o text(best + ZeroRun(g, best), 8)
       ELSE text(1, 8)

\* inet_ntop for AF_INET: dotted decimal
Ntop4(addr) == JoinBy([k \in 1 .. 4 |-> Digits(addr[k])], 46)

\* ats_ip_ntop(ip, dest, len): the text, stored only when it fits with its NUL
ats_ip_ntop(ip) ==
  IF ip.family = "inet" THEN Ntop4(ip.addr)
  ELSE IF ip.family = "inet6" THEN Ntop6(ip.addr)
  ELSE ip.addr

\* LogAccess::unmarshal_ip_to_str.  With no capacity the cursor stays.
unmarshal_ip_to_str(mem, off, len) ==
  LET Text(text, adv) ==
        IF Len(text) + 1 <= len THEN Dec(Len(text), adv, text \o <<0>>) ELSE Dec(-1, adv, <<>>)
      With(ip) ==
        IF ip.family = "other" THEN Dec(1, ip.adv, <<48>>)
        ELSE Text(ats_ip_ntop(ip), ip.adv)
  IN IF len > 0 THEN With(unmarshal_ip(mem, off)) ELSE Dec(-1, 0, <<>>)

\* ats_ip_to_hex(sa, dest, len): two upper-case digits for each byte of an
\* IPv4 or IPv6 address while they fit before the NUL, then the NUL; the
\* count of digits is returned
ats_ip_to_hex(ip, len) ==
  LET data == IF ip.family \in {"inet", "inet6"} THEN ip.addr ELSE <<>>
      fit == {k \in 0 .. Len(data) : k = 0 \/ 2 * k < len}
      n == CHOOSE k \in fit : \A j \in fit : j <= k
      digits == [i \in 1 .. 2 * n |->
                   IF i % 2 = 1 THEN HexDigitUpper(data[(i + 1) \div 2] \div 16)
                   ELSE HexDigitUpper(data[i \div 2] % 16)]
  IN [ret |-> 2 * n, w |-> digits \o <<0>>]

\* LogAccess::unmarshal_ip_to_hex.  With no capacity the cursor stays.
unmarshal_ip_to_hex(mem, off, len) ==
  LET Hex(r, adv) == Dec(r.ret, adv, r.w)
      With(ip) ==
        IF ip.family = "other" THEN Dec(1, ip.adv, <<48>>)
        ELSE Hex(ats_ip_to_hex(ip, len), ip.adv)
  IN IF len > 0 THEN With(unmarshal_ip(mem, off)) ELSE Dec(-1, 0, <<>>)

\* ---------------------------------------------------- the transactions

\* "GET", "PROPFIND"
M_GET == <<71, 69, 84>>
M_PROPFIND == <<80, 82, 79, 80, 70, 73, 78, 68>>

\* The records of the management layer the model draws from.
Rec(ty, fnd, iv, sv, ft) == [rtype |-> ty, found |-> fnd, ival |-> iv, sval |-> sv, ftext |-> ft]

\* "1.500000e+00" and "-1.797693e+308"
F_SHORT == <<49, 46, 53, 48, 48, 48, 48, 48, 101, 43, 48, 48>>
F_LONG == <<45, 49, 46, 55, 57, 55, 54, 57, 51, 101, 43, 51, 48, 56>>

RecordSet ==
  {Rec("ERR", FALSE, 0, <<>>, <<>>), Rec("ERR", TRUE, 7, <<>>, <<>>),
   Rec("INT", TRUE, 0, <<>>, <<>>), Rec("INT", TRUE, MinInt, <<>>, <<>>),
   Rec("INT", FALSE, 0, <<>>, <<>>), Rec("COUNTER", TRUE, MaxInt, <<>>, <<>>),
   Rec("COUNTER", TRUE, 1, <<>>, <<>>),
   Rec("FLOAT", TRUE, 0, <<>>, F_SHORT), Rec("FLOAT", TRUE, 0, <<>>, F_LONG),
   Rec("FLOAT", FALSE, 0, <<>>, <<>>),
   Rec("STRING", TRUE, 0, <<>>, <<>>), Rec("STRING", TRUE, 0, <<120, 121>>, <<>>),
   Rec("STRING", TRUE, 0, Fill(MARSHAL_RECORD_LENGTH - 2, 120), <<>>),
   Rec("STRING", TRUE, 0, Fill(MARSHAL_RECORD_LENGTH - 1, 120), <<>>),
   Rec("STRING", TRUE, 0, Fill(MARSHAL_RECORD_LENGTH + 3, 120), <<>>),
   Rec("STRING", FALSE, 0, <<>>, <<>>)}

IpSet ==
  {[family |-> "null", addr |-> <<>>],
   [family |-> "inet", addr |-> <<10, 0, 0, 1>>],
   [family |-> "inet6", addr |-> Fill(15, 0) \o <<1>>],
   [family |-> "unix", addr |-> <<47, 115>>],
   [family |-> "other", addr |-> <<>>]}

BaseTxn ==
  [client_request_valid |-> TRUE,
   method |-> M_GET,
   url |-> <<47, 97>>,
   path |-> <<97>>,
   version |-> <<1, 1>>,
   unmapped |-> NULLSTR,
   lookup |-> NULLSTR,
   authority |-> NULLSTR,
   hdr |-> <<>>,
   server |-> FALSE,
   server_name |-> NULLSTR,
   plugin_tag |-> NULLSTR,
   host_name |-> <<104>>,
   port |-> 80,
   server_response_valid |-> FALSE,
   cache_response_valid |-> FALSE,
   content_range |-> NULLSTR,
   server_response_length |-> 0,
   server_response_body_bytes |-> 0,
   cache_response_body_bytes |-> 0,
   ip |-> [family |-> "inet", addr |-> <<10, 0, 0, 1>>],
   record |-> Rec("STRING", TRUE, 0, <<120, 121>>, <<>>)]

\* The transactions the model draws from: the base one, and the base one
\* with one attribute changed.
TxnSet ==
  {BaseTxn, [BaseTxn EXCEPT !.client_request_valid = FALSE]}
  \cup {[BaseTxn EXCEPT !.method = m] : m \in {<<>>, M_PROPFIND}}
  \cup {[BaseTxn EXCEPT !.url = u] :
          u \in {<<47, 97, 32, 98>>, <<47, 97, 98, 99, 100, 101, 102>>,
                 <<47, 97, 98, 99, 100, 101, 102, 103>>}}
  \cup {[BaseTxn EXCEPT !.unmapped = u] :
          u \in {<<104, 58, 47, 47, 98, 47, 99>>, <<104, 58, 47, 47, 98, 32, 99, 47, 100>>,
                 <<97, 98, 99>>, <<104, 116, 58, 47, 47, 98>>, <<97, 58, 47, 47, 47>>,
                 <<>>}}
  \cup {[BaseTxn EXCEPT !.lookup = u] : u \in {<<47, 108>>, <<47, 108, 32, 109>>}}
  \cup {[BaseTxn EXCEPT !.authority = a] :
          a \in {<<>>, <<97>>, <<97, 46, 98, 99>>, <<97, 98, 99, 100, 46, 99, 111, 109>>}}
  \cup {[BaseTxn EXCEPT !.hdr = v] :
          v \in {<< <<>> >>, << <<118>> >>, << <<118>>, <<119>> >>, << <<97, 32, 98>> >>,
                 << <<97, 98, 99, 100, 101, 102, 103>> >>}}
  \cup {[BaseTxn EXCEPT !.server = TRUE, !.server_name = n] : n \in {NULLSTR, <<111>>}}
  \cup {[BaseTxn EXCEPT !.plugin_tag = <<112>>]}
  \cup {[BaseTxn EXCEPT !.host_name = n] :
          n \in {NULLSTR, <<104, 111, 115, 116, 46, 110, 97>>}}
  \cup {[BaseTxn EXCEPT !.ip = a] : a \in IpSet}
  \cup {[BaseTxn EXCEPT !.record = r] : r \in RecordSet}
  \cup {[BaseTxn EXCEPT !.server_response_valid = TRUE, !.server_response_length = 9,
                         !.content_range = cr, !.server_response_body_bytes = 5] :
          cr \in {NULLSTR, <<48, 45, 52, 47, 49, 50>>, <<48, 45, 52, 47, 42>>, <<120>>}}
  \cup {[BaseTxn EXCEPT !.cache_response_valid = cv, !.cache_response_body_bytes = n] :
          cv \in BOOLEAN, n \in {0, 7}}

\* The transactions a build with DEBUG defined is run on.
DebugTxnSet ==
  {BaseTxn, [BaseTxn EXCEPT !.authority = <<97, 46, 98, 99>>],
   [BaseTxn EXCEPT !.hdr = << <<118>>, <<119>> >>],
   [BaseTxn EXCEPT !.unmapped = <<104, 58, 47, 47, 98, 32, 99, 47, 100>>]}

\* ------------------------------------------------------------ cache_fill
\* plugins/experimental/cache_fill/cache_fill.cc: the handler of the
\* TS_HTTP_CACHE_LOOKUP_COMPLETE_HOOK of a remapped transaction.

TS_CACHE_LOOKUP_MISS == "TS_CACHE_LOOKUP_MISS"
TS_CACHE_LOOKUP_HIT_STALE == "TS_CACHE_LOOKUP_HIT_STALE"
TS_CACHE_LOOKUP_HIT_FRESH == "TS_CACHE_LOOKUP_HIT_FRESH"
TS_CACHE_LOOKUP_SKIPPED == "TS_CACHE_LOOKUP_SKIPPED"

LookupStatuses ==
  {TS_CACHE_LOOKUP_MISS, TS_CACHE_LOOKUP_HIT_STALE,
   TS_CACHE_LOOKUP_HIT_FRESH, TS_CACHE_LOOKUP_SKIPPED}

TS_EVENT_HTTP_CACHE_LOOKUP_COMPLETE == "TS_EVENT_HTTP_CACHE_LOOKUP_COMPLETE"
TS_EVENT_HTTP_READ_RESPONSE_HDR == "TS_EVENT_HTTP_READ_RESPONSE_HDR"
TS_EVENT_HTTP_CONTINUE == "TS_EVENT_HTTP_CONTINUE"
TS_EVENT_NONE == "TS_EVENT_NONE"

\* the events the continuation is called with
HookEvents == {TS_EVENT_HTTP_CACHE_LOOKUP_COMPLETE, TS_EVENT_HTTP_READ_RESPONSE_HDR}

\* What the calls of one invocation answer: config->bgFetchAllowed(txnp),
\* TSHttpTxnCacheLookupStatusGet and TSHttpTxnClientReqGet succeeding,
\* data->initialize(), data->acquireUrl(), and what a TSHandleMLocRelease
\* of a request and a header that were never assigned does.
Answers ==
  [bgFetchAllowed : BOOLEAN, statusGet : BOOLEAN, clientReqGet : BOOLEAN,
   initialize : BOOLEAN, acquireUrl : BOOLEAN, release : {"returns", "aborts"}]

NoAnswers ==
  [bgFetchAllowed |-> FALSE, statusGet |-> FALSE, clientReqGet |-> FALSE,
   initialize |-> FALSE, acquireUrl |-> FALSE, release |-> "returns"]

\* The plugin and the transaction before the hook was ever called: config is
\* the data of the continuation being set, internal, lookupStatus and
\* no_store belong to the transaction, created, deleted and scheduled count
\* BgFetchData objects, reenabled counts the TSHttpTxnReenable calls of the
\* invocation, checked and requested are the locals of the handler.
NoPlugin ==
  [config |-> FALSE, internal |-> FALSE, lookupStatus |-> TS_CACHE_LOOKUP_SKIPPED,
   no_store |-> FALSE, state |-> "none", event |-> TS_EVENT_NONE, calls |-> 0,
   reenabled |-> 0, reenable_event |-> TS_EVENT_NONE,
   created |-> 0, deleted |-> 0, scheduled |-> 0,
   checked |-> FALSE, requested |-> FALSE, a |-> NoAnswers]

\* cont_check_cacheable(txnp): ret, the BgFetchData objects it created,
\* deleted and scheduled, and whether the process went down in it
Cacheable(ret, created, deleted, scheduled, aborted) ==
  [ret |-> ret, created |-> created, deleted |-> deleted,
   scheduled |-> scheduled, aborted |-> aborted]

cont_check_cacheable_unlocked(p, a) ==
  IF p.internal THEN Cacheable(FALSE, 0, 0, 0, FALSE)
  ELSE IF ~a.statusGet THEN Cacheable(FALSE, 0, 0, 0, FALSE)
  ELSE IF p.lookupStatus \in {TS_CACHE_LOOKUP_MISS, TS_CACHE_LOOKUP_HIT_STALE}
            /\ ~p.no_store
    THEN IF a.clientReqGet
           THEN IF a.initialize
                  THEN Cacheable(TRUE, 1, 0, 1, FALSE)
                  ELSE Cacheable(FALSE, 1, 1, 0, FALSE)
           ELSE Cacheable(FALSE, 0, 0, 0, a.release = "aborts")
    ELSE Cacheable(FALSE, 0, 0, 0, FALSE)

cont_check_cacheable(p, a) ==
  IF p.internal THEN Cacheable(FALSE, 0, 0, 0, FALSE)
  ELSE IF ~a.statusGet THEN Cacheable(FALSE, 0, 0, 0, FALSE)
  ELSE IF p.lookupStatus \in {TS_CACHE_LOOKUP_MISS, TS_CACHE_LOOKUP_HIT_STALE}
            /\ ~p.no_store
    THEN IF a.clientReqGet
           THEN IF a.initialize /\ a.acquireUrl
                  THEN Cacheable(TRUE, 1, 0, 1, FALSE)
                  ELSE Cacheable(FALSE, 1, 1, 0, FALSE)
           \* request and req_hdr were never assigned and are released
           ELSE Cacheable(FALSE, 0, 0, 0, a.release = "aborts")
    ELSE Cacheable(FALSE, 0, 0, 0, FALSE)

\* cont_handle_cache(contp, event, edata) on the plugin and transaction p
cont_handle_cache(p, a) ==
  LET checked == p.config /\ a.bgFetchAllowed
                   /\ p.event = TS_EVENT_HTTP_CACHE_LOOKUP_COMPLETE
      r == IF checked THEN cont_check_cacheable(p, a)
           ELSE Cacheable(FALSE, 0, 0, 0, FALSE)
      q == [p EXCEPT !.a = a, !.checked = checked, !.requested = r.ret,
                     !.created = @ + r.created, !.deleted = @ + r.deleted,
                     !.scheduled = @ + r.scheduled]
  IN IF r.aborted
       THEN [q EXCEPT !.state = "aborted"]
       ELSE [q EXCEPT !.no_store = IF r.ret THEN TRUE ELSE @,
                      !.lookupStatus = IF r.ret THEN TS_CACHE_LOOKUP_MISS ELSE @,
                      !.reenabled = @ + 1,
                      !.reenable_event = TS_EVENT_HTTP_CONTINUE,
                      !.state = "running"]

\* ---------------------------------------------------------------- state

VARIABLES
  txn,      \* the transaction (HttpSM) the context reads
  debug,    \* the build defines DEBUG
  ctx,      \* the LogAccess object
  heap,     \* the strings the context's pointers refer to
  mbuf,     \* the marshal buffer of the caller
  last,     \* the last call on the context and what it returned
  pc,       \* the position of the caller
  fmt,      \* resolve_logfield_string: the fields of the format
  rs,       \* resolve_logfield_string: its locals
  cursor,   \* the decode cursor into mbuf
  um,       \* the last decoder call and what it returned
  cf        \* cache_fill: the plugin and its transaction

vars == <<txn, debug, ctx, heap, mbuf, last, pc, fmt, rs, cursor, um, cf>>

\* the arena allocations a context may make in the model
MaxArena == 3

\* op: the call; len: what it returned; w: the bytes it stored at its
\* destination; alloc: the size of the destination
NoCall == [op |-> "none", field |-> "", fill |-> FALSE, len |-> 0, alloc |-> 0, w |-> <<>>]

\* lenPass, fillPass, decPass: what the calls of the length pass, of the
\* fill pass and of the decoding returned, field by field; outside: the
\* fill pass stored a byte outside the buffer; args: "ok", or which argument
\* was null; format: format_str; copy: the string returned by ats_strdup
NoResolve == [n_fields |-> 0, field_count |-> 0, bytes_needed |-> 0, bytes_used |-> 0,
              lenPass |-> <<>>, fillPass |-> <<>>, decPass |-> <<>>,
              outside |-> FALSE, result |-> "none",
              args |-> "ok", format |-> <<>>, copy |-> <<>>]

\* op: the decoder; kind: what the buffer holds; src: what was encoded;
\* len: the capacity of dest; slice, json: the slice and the escaping asked
\* for; ret, adv, w: the returned count, the cursor
\* advance and the bytes stored from dest on; ub: the outcome of undefined
\* behaviour met on the way; ip: the endpoint unmarshal_ip stored; map: the
\* alias map handed to an alias decoder
NoDecode == [op |-> "none", kind |-> "none", src |-> <<>>, len |-> 0, slice |-> NoSlice,
             json |-> FALSE, ret |-> 0, adv |-> 0, w |-> <<>>, ub |-> "none",
             ip |-> [family |-> "none", addr |-> <<>>], map |-> <<>>]

\* the bytes of a write vector stored into memory m at offset off
Store(m, off, w) ==
  [i \in 1 .. Max(Len(m), IF w = <<>> THEN 0 ELSE off + Len(w)) |->
     IF i > off /\ i <= off + Len(w) /\ w[i - off] # NoWrite THEN w[i - off]
     ELSE IF i <= Len(m) THEN m[i] ELSE Undef]

\* ------------------------------------------ calls on a LogAccess object

InitAccess ==
  /\ \/ txn \in TxnSet /\ debug = FALSE
     \/ txn \in DebugTxnSet /\ debug = TRUE
  /\ ctx = CtxNew
  /\ heap = HeapNew(txn)
  /\ mbuf = <<>>
  /\ last = NoCall
  /\ pc = "new"
  /\ fmt = <<>>
  /\ rs = NoResolve
  /\ cursor = 0
  /\ um = NoDecode
  /\ cf = NoPlugin

\* context->init()
CallInit ==
  /\ pc = "new"
  /\ \E r \in {LogAccess_init(ctx, heap, txn)} :
       /\ ctx' = r.ctx
       /\ heap' = r.heap
  /\ pc' = "ready"
  /\ last' = [NoCall EXCEPT !.op = "init"]
  /\ UNCHANGED <<cf, txn, debug, mbuf, fmt, rs, cursor, um>>

\* a length query of a field of F: marshal_<f>(nullptr)
MarshalLenOf(F) ==
  /\ pc = "ready"
  /\ ctx.arena < MaxArena
  /\ \E f \in F :
       \E r \in {Marshal(f, ctx, heap, txn, debug, FALSE)} :
         /\ ctx' = r.ctx
         /\ heap' = r.heap
         /\ last' = [op |-> "marshal", field |-> f, fill |-> FALSE, len |-> r.len,
                     alloc |-> 0, w |-> r.w]
  /\ UNCHANGED <<cf, txn, debug, mbuf, pc, fmt, rs, cursor, um>>

CallMarshalLen == MarshalLenOf(Fields \cup ScalarFields)

\* a fill: marshal_<f>(buf), with buf the part of an entry buffer the caller
\* set aside for the field: as many bytes as the length query before it
\* asked for
CallMarshalFill ==
  /\ pc = "ready"
  /\ ctx.arena < MaxArena
  /\ last.op = "marshal"
  /\ ~last.fill
  /\ \E r \in {Marshal(last.field, ctx, heap, txn, debug, TRUE)} :
       /\ ctx' = r.ctx
       /\ heap' = r.heap
       /\ last' = [op |-> "marshal", field |-> last.field, fill |-> TRUE, len |-> r.len,
                   alloc |-> last.len, w |-> r.w]
  /\ UNCHANGED <<cf, txn, debug, mbuf, pc, fmt, rs, cursor, um>>

\* the strings handed to the setters; len is the length of the string
SetBufs == {NULLSTR, <<120>>, <<120, 121, 122, 120, 121, 122, 120, 121, 122>>}

\* the transactions whose contexts the setters are called on
SetTxnSet ==
  {BaseTxn, [BaseTxn EXCEPT !.client_request_valid = FALSE]}
  \cup {[BaseTxn EXCEPT !.unmapped = u] :
          u \in {<<104, 58, 47, 47, 98, 47, 99>>, <<104, 58, 47, 47, 98, 32, 99, 47, 100>>,
                 <<97, 98, 99>>}}

\* the bytes of the object of p from p on; none behind the null pointer
Room(h, p) == IF p = NULLP THEN 0 ELSE Len(h[p.obj]) - p.off

\* a setter call: set_<s>(buf, len).  In last, field is the setter, len the
\* number of bytes it stored, alloc the room at the pointer it stored through and
\* w the bytes it stored.  A store through the null pointer is undefined:
\* the process is stopped, or it goes on with the store without effect.
CallSet ==
  /\ pc = "ready"
  /\ \E s \in Setters, buf \in SetBufs :
       \E r \in {Setter(s, ctx, heap, buf, IF buf = NULLSTR THEN 0 ELSE Len(buf))} :
         /\ ctx' = r.ctx
         /\ heap' = r.heap
         /\ last' = [op |-> "set", field |-> s, fill |-> FALSE,
                     len |-> Len(r.w), alloc |-> Room(heap, r.ptr), w |-> r.w]
         /\ \/ pc' = pc
            \/ r.ptr = NULLP /\ r.w # <<>> /\ pc' = "stopped"
  /\ UNCHANGED <<cf, txn, debug, mbuf, fmt, rs, cursor, um>>

\* a statistic of the management layer changes under the context
RecordChange ==
  /\ pc \in {"ready", "marshal"}
  /\ txn.record.rtype \in {"INT", "COUNTER"}
  /\ txn.record.found
  /\ \E r \in RecordSet :
       /\ r.rtype = txn.record.rtype
       /\ r.found
       /\ r # txn.record
       /\ txn' = [txn EXCEPT !.record = r]
  /\ UNCHANGED <<cf, debug, ctx, heap, mbuf, last, pc, fmt, rs, cursor, um>>

NextAccess == CallInit \/ CallMarshalLen \/ CallMarshalFill \/ RecordChange

Spec == InitAccess /\ [][NextAccess]_vars

\* ---------------------------------- calls on a context with its setters

\* the fields whose encoders read the strings the setters rewrite
UrlFields ==
  {"client_req_url", "client_req_url_canon", "client_req_url_path",
   "client_req_unmapped_url_canon", "client_req_unmapped_url_path",
   "client_req_unmapped_url_host", "cache_lookup_url_canon"}

InitSet ==
  /\ InitAccess
  /\ txn \in SetTxnSet

CallMarshalUrlLen == MarshalLenOf(UrlFields)

NextSet == CallInit \/ CallMarshalUrlLen \/ CallMarshalFill \/ CallSet

SpecSet == InitSet /\ [][NextSet]_vars

\* ------------------------------------------- resolve_logfield_string

\* a symbol no field is registered under
BOGUS == "bogus"

\* a stretch of literal text between the specifiers of a format
TEXT == "text"

Symbols == Fields \cup {BOGUS, TEXT}

\* every sequence over S of length at most n
SeqsUpTo(S, n) == UNION {[1 .. k -> S] : k \in 0 .. n}

\* the format strings handed to resolve_logfield_string, as the sequence of
\* their %<symbol> specifiers and of the literal text between them
Formats == SeqsUpTo(Symbols, MaxFields)

\* LogFormat::parse_format_string: the number of specifiers of the format
parse_format_string(format) == Len(SelectSeq(format, LAMBDA sym : sym # TEXT))

\* LogFormat::parse_symbol_string: the fields of the known symbols, in order
parse_symbol_string(format) == SelectSeq(format, LAMBDA sym : sym \in Fields)

\* What a decoder reads at the cursor.  A read of a cell outside the memory
\* or of a cell nothing was stored into has no defined outcome; these
\* predicates say that a decoder meets none.

\* the n cells from the cursor on hold stored bytes
CellsDefined(mem, off, n) ==
  off + n <= Len(mem) /\ \A k \in off + 1 .. off + n : mem[k] # Undef

\* ::strlen at the cursor meets a NUL before any such cell
StrDefined(mem, off) ==
  \E k \in off + 1 .. Len(mem) : mem[k] = 0 /\ \A j \in off + 1 .. k : mem[j] # Undef

IpDefined(mem, off) ==
  /\ CellsDefined(mem, off, SizeofLogFieldIp)
  /\ FamilyAt(mem, off) = AF_INET => CellsDefined(mem, off + AddrOffset, 4)
  /\ FamilyAt(mem, off) = AF_INET6 => CellsDefined(mem, off + AddrOffset, 16)
  /\ FamilyAt(mem, off) = AF_UNIX => CellsDefined(mem, off + PathOffset, TS_UNIX_SIZE)

TextDefined(mem, off) ==
  /\ StrDefined(mem, off)
  /\ StrDefined(mem, off + LogAccess_strlen(c_str(mem, off)))
  /\ CellsDefined(mem,
                  off + LogAccess_strlen(c_str(mem, off))
                      + LogAccess_strlen(c_str(mem, off + LogAccess_strlen(c_str(mem, off)))),
                  2 * INK_MIN_ALIGN)

\* the decoder bound to field f reads defined cells only
ReadsDefined(f, mem, off) ==
  CASE f = "client_host_port" -> CellsDefined(mem, off, INK_MIN_ALIGN)
    [] f = "client_req_http_version" -> CellsDefined(mem, off, 2 * INK_MIN_ALIGN)
    [] f = "client_req_text" -> TextDefined(mem, off)
    [] f = "client_host_ip" -> IpDefined(mem, off)
    [] OTHER -> StrDefined(mem, off)

\* the capacity resolve_logfield_string gives the decoding
RESULT_CAP == 8191

\* the unmarshal function bound to a field
Unmarshal(f, mem, off, len) ==
  CASE f = "client_host_port" -> unmarshal_int_to_str(mem, off, len)
    [] f = "client_req_http_version" -> unmarshal_http_version(mem, off, len)
    [] f = "client_req_text" -> unmarshal_http_text(mem, off, len, NoSlice, FALSE)
    [] f = "client_host_ip" -> unmarshal_ip_to_str(mem, off, len)
    [] f = "record" -> unmarshal_record(mem, off, len)
    [] OTHER -> unmarshal_str(mem, off, len, NoSlice, FALSE)

\* the transactions resolve_logfield_string is run on
ResolveTxnSet ==
  {BaseTxn}
  \cup {[BaseTxn EXCEPT !.authority = a] :
          a \in {<<>>, <<97>>, <<97, 46, 98, 99>>, <<97, 98, 99, 100, 46, 99, 111, 109>>}}
  \cup {[BaseTxn EXCEPT !.hdr = v] :
          v \in {<< <<>> >>, << <<118>> >>, << <<118>>, <<119>> >>, << <<97, 32, 98>> >>}}
  \cup {[BaseTxn EXCEPT !.unmapped = <<104, 58, 47, 47, 98, 47, 99>>],
        [BaseTxn EXCEPT !.method = <<>>],
        [BaseTxn EXCEPT !.host_name = NULLSTR],
        [BaseTxn EXCEPT !.client_request_valid = FALSE],
        [BaseTxn EXCEPT !.ip = [family |-> "inet6", addr |-> Fill(15, 0) \o <<1>>]],
        [BaseTxn EXCEPT !.record = Rec("INT", TRUE, MinInt, <<>>, <<>>)],
        [BaseTxn EXCEPT !.record = Rec("COUNTER", TRUE, 1, <<>>, <<>>)],
        [BaseTxn EXCEPT !.record = Rec("STRING", TRUE, 0, Fill(MARSHAL_RECORD_LENGTH + 3, 120), <<>>)]}

InitResolve ==
  /\ \/ txn \in ResolveTxnSet /\ debug = FALSE
     \/ txn \in DebugTxnSet /\ debug = TRUE
  /\ ctx = CtxNew
  /\ heap = HeapNew(txn)
  /\ mbuf = <<>>
  /\ last = NoCall
  /\ pc = "start"
  /\ fmt = <<>>
  /\ rs = NoResolve
  /\ cursor = 0
  /\ um = NoDecode
  /\ cf = NoPlugin

\* resolve_logfield_string called without a context or without a format
ResolveNullArgument ==
  /\ pc = "start"
  /\ \E a \in {"no_context", "no_format"} :
       rs' = [rs EXCEPT !.args = a, !.result = "null"]
  /\ pc' = "done"
  /\ UNCHANGED <<cf, txn, debug, ctx, heap, mbuf, last, fmt, cursor, um>>

\* ResolveParse without the comparison of field_count with n_fields
ResolveParseUnchecked ==
  /\ pc = "start"
  /\ \E format \in Formats :
       LET n_fields == parse_format_string(format)
           fields == parse_symbol_string(format)
       IN /\ fmt' = fields
          /\ rs' = [rs EXCEPT !.n_fields = n_fields,
                              !.field_count = Len(fields),
                              !.format = format,
                              !.copy = IF n_fields = 0 THEN format ELSE <<>>,
                              !.result = IF n_fields = 0 THEN "copy" ELSE "none"]
          /\ pc' = IF n_fields = 0 THEN "done" ELSE "init"
  /\ UNCHANGED <<cf, txn, debug, ctx, heap, mbuf, last, cursor, um>>

\* ResolveParse without the early return for a format without fields
ResolveParseNoEarlyReturn ==
  /\ pc = "start"
  /\ \E format \in Formats :
       LET n_fields == parse_format_string(format)
           fields == parse_symbol_string(format)
       IN /\ fmt' = fields
          /\ rs' = [rs EXCEPT !.n_fields = n_fields,
                              !.field_count = Len(fields),
                              !.format = format,
                              !.result = IF Len(fields) # n_fields THEN "null" ELSE "none"]
          /\ pc' = IF Len(fields) # n_fields THEN "done" ELSE "init"
  /\ UNCHANGED <<cf, txn, debug, ctx, heap, mbuf, last, cursor, um>>

\* resolve_logfield_string up to the check of the field count
ResolveParse ==
  /\ pc = "start"
  /\ \E format \in Formats :
       LET n_fields == parse_format_string(format)
           fields == parse_symbol_string(format)
       IN /\ fmt' = fields
          /\ rs' = [rs EXCEPT !.n_fields = n_fields,
                              !.field_count = Len(fields),
                              !.format = format,
                              !.copy = IF n_fields = 0 THEN format ELSE <<>>,
                              !.result = IF n_fields = 0 THEN "copy"
                                         ELSE IF Len(fields) # n_fields THEN "null"
                                         ELSE "none"]
          /\ pc' = IF n_fields = 0 \/ Len(fields) # n_fields THEN "done" ELSE "init"
  /\ UNCHANGED <<cf, txn, debug, ctx, heap, mbuf, last, cursor, um>>

\* context->init()
ResolveInit ==
  /\ pc = "init"
  /\ \E r \in {LogAccess_init(ctx, heap, txn)} :
       /\ ctx' = r.ctx
       /\ heap' = r.heap
  /\ pc' = "marshal_len"
  /\ last' = [NoCall EXCEPT !.op = "init"]
  /\ UNCHANGED <<cf, txn, debug, mbuf, fmt, rs, cursor, um>>

\* fields.marshal_len(context): the length query of the next field; after
\* the last one, buf = ats_malloc(bytes_needed)
ResolveMarshalLen ==
  /\ pc = "marshal_len"
  /\ Len(rs.lenPass) < Len(fmt)
  /\ \E r \in {Marshal(fmt[Len(rs.lenPass) + 1], ctx, heap, txn, debug, FALSE)} :
       /\ ctx' = r.ctx
       /\ heap' = r.heap
       /\ rs' = [rs EXCEPT !.lenPass = Append(@, [field |-> fmt[Len(rs.lenPass) + 1],
                                                 len |-> r.len]),
                           !.bytes_needed = @ + r.len]
       /\ last' = [op |-> "marshal", field |-> fmt[Len(rs.lenPass) + 1], fill |-> FALSE,
                   len |-> r.len, alloc |-> 0, w |-> r.w]
       /\ IF Len(rs.lenPass) + 1 = Len(fmt)
            THEN /\ pc' = "marshal"
                 /\ mbuf' = Fill(rs.bytes_needed + r.len, Undef)
            ELSE /\ pc' = pc
                 /\ mbuf' = mbuf
  /\ UNCHANGED <<cf, txn, debug, fmt, cursor, um>>

\* fields.marshal(context, buf): the fill of the next field at
\* &buf[bytes_used]; ats_malloc(0) is a null pointer
ResolveMarshal ==
  /\ pc = "marshal"
  /\ Len(rs.fillPass) < Len(fmt)
  /\ \E r \in {Marshal(fmt[Len(rs.fillPass) + 1], ctx, heap, txn, debug,
                       rs.bytes_needed > 0 \/ rs.bytes_used > 0)} :
       /\ ctx' = r.ctx
       /\ heap' = r.heap
       /\ mbuf' = Store(mbuf, rs.bytes_used, r.w)
       /\ rs' = [rs EXCEPT !.fillPass = Append(@, [field |-> fmt[Len(rs.fillPass) + 1],
                                                  len |-> r.len, at |-> rs.bytes_used,
                                                  w |-> r.w]),
                           !.bytes_used = @ + r.len,
                           !.outside = @ \/ \E i \in 1 .. Len(r.w) :
                                              /\ r.w[i] # NoWrite
                                              /\ rs.bytes_used + i > rs.bytes_needed]
       /\ last' = [op |-> "marshal", field |-> fmt[Len(rs.fillPass) + 1], fill |-> TRUE,
                   len |-> r.len, alloc |-> rs.lenPass[Len(rs.fillPass) + 1].len, w |-> r.w]
       /\ pc' = IF Len(rs.fillPass) + 1 = Len(fmt) THEN "assert" ELSE pc
  /\ UNCHANGED <<cf, txn, debug, fmt, cursor, um>>

\* ink_assert(bytes_needed == bytes_used): it aborts a build with DEBUG
\* defined and is no code at all in any other.  Past a store outside the
\* buffer the behaviour is undefined: the process goes on with the bytes
\* where they were stored, or it is killed.
ResolveAssert ==
  /\ pc = "assert"
  /\ \/ /\ rs.bytes_needed # rs.bytes_used
        /\ debug
        /\ pc' = "aborted"
     \/ /\ rs.bytes_needed = rs.bytes_used \/ ~debug
        /\ pc' = "unmarshal"
     \/ /\ rs.outside
        /\ ~debug
        /\ pc' = "killed"
  /\ UNCHANGED <<cf, txn, debug, ctx, heap, mbuf, last, fmt, rs, cursor, um>>

\* LogBuffer::resolve_custom_entry: the decoding of the next field at the
\* cursor
ResolveUnmarshal ==
  /\ pc = "unmarshal"
  /\ Len(rs.decPass) < Len(fmt)
  /\ ReadsDefined(fmt[Len(rs.decPass) + 1], mbuf, cursor)
  /\ \E r \in {Unmarshal(fmt[Len(rs.decPass) + 1], mbuf, cursor, RESULT_CAP)} :
       /\ rs' = [rs EXCEPT !.decPass = Append(@, [field |-> fmt[Len(rs.decPass) + 1],
                                                 ret |-> r.ret, adv |-> r.adv,
                                                 at |-> cursor, w |-> r.w]),
                           !.result = IF r.ret < 0 THEN "null"
                                      ELSE IF Len(rs.decPass) + 1 = Len(fmt) THEN "text"
                                      ELSE @]
       /\ cursor' = cursor + r.adv
       /\ pc' = IF r.ret < 0 \/ Len(rs.decPass) + 1 = Len(fmt) THEN "done" ELSE pc
  /\ UNCHANGED <<cf, txn, debug, ctx, heap, mbuf, last, fmt, um>>

\* the decoder of the next field reads outside the buffer or cells the
\* fill pass left alone: no outcome is defined from here on
ResolveUnmarshalUndefined ==
  /\ pc = "unmarshal"
  /\ Len(rs.decPass) < Len(fmt)
  /\ ~ReadsDefined(fmt[Len(rs.decPass) + 1], mbuf, cursor)
  /\ rs' = [rs EXCEPT !.result = "undefined"]
  /\ pc' = "done"
  /\ UNCHANGED <<cf, txn, debug, ctx, heap, mbuf, last, fmt, cursor, um>>

NextResolve ==
  \/ ResolveNullArgument
  \/ ResolveParse
  \/ ResolveInit
  \/ ResolveMarshalLen
  \/ ResolveMarshal
  \/ ResolveAssert
  \/ ResolveUnmarshal
  \/ ResolveUnmarshalUndefined
  \/ (pc = "marshal" /\ RecordChange)

SpecResolve == InitResolve /\ [][NextResolve]_vars

\* ------------------------------------------------- the decoders alone
\* An encoder lays one value into a buffer of the size it asks for, and one
\* decoder call reads it back into a destination of some capacity.

\* a capacity that holds every text of the model
BigCap == 64

Caps == 0 .. MaxCap \cup {BigCap}

\* the strings handed to marshal_str and marshal_mem
StrSet ==
  {NULLSTR, <<>>, <<97>>, <<97, 98, 99>>, <<97, 34, 98>>, <<97, 10>>, <<200, 97>>,
   <<31, 127, 47>>,
   <<97, 98, 99, 100, 101, 102, 103>>, <<97, 98, 99, 100, 101, 102, 103, 104>>}

\* the slices of a field specifier
SliceSet ==
  {NoSlice, [m_enable |-> TRUE, m_start |-> 2, m_end |-> 5]}
  \cup {[m_enable |-> TRUE, m_start |-> a, m_end |-> b] :
          a \in {0, 1, 9, -2}, b \in {INT_MAX, 2, 0, -1}}

\* the fields encoded through their marshal function
CodecFields ==
  {"client_req_text", "client_req_http_version", "client_host_ip", "record",
   "proxy_protocol_authority", "http_header_field", "client_req_url_canon"}

StringFields ==
  {"proxy_protocol_authority", "http_header_field", "client_req_url_canon"}

\* the transactions the encoded fields are taken from
CodecTxnSet ==
  {BaseTxn,
   [BaseTxn EXCEPT !.method = M_PROPFIND],
   [BaseTxn EXCEPT !.url = <<47, 97, 32, 98>>],
   [BaseTxn EXCEPT !.version = <<2, 0>>],
   [BaseTxn EXCEPT !.authority = <<97, 46, 98, 99>>],
   [BaseTxn EXCEPT !.hdr = << <<>> >>],
   [BaseTxn EXCEPT !.hdr = << <<118>>, <<119>> >>],
   [BaseTxn EXCEPT !.ip = [family |-> "null", addr |-> <<>>]],
   [BaseTxn EXCEPT !.ip = [family |-> "inet6", addr |-> Fill(15, 0) \o <<1>>]],
   [BaseTxn EXCEPT !.ip = [family |-> "unix", addr |-> <<47, 115>>]],
   [BaseTxn EXCEPT !.ip = [family |-> "other", addr |-> <<>>]],
   [BaseTxn EXCEPT !.record = Rec("INT", TRUE, MinInt, <<>>, <<>>)],
   [BaseTxn EXCEPT !.record = Rec("STRING", TRUE, 0, Fill(MARSHAL_RECORD_LENGTH - 1, 120), <<>>)]}

InitCodec ==
  /\ txn = BaseTxn
  /\ debug \in BOOLEAN
  /\ ctx = CtxNew
  /\ heap = HeapNew(txn)
  /\ mbuf = <<>>
  /\ last = NoCall
  /\ pc = "new"
  /\ fmt = <<>>
  /\ rs = NoResolve
  /\ cursor = 0
  /\ um = NoDecode
  /\ cf = NoPlugin

\* marshal_int(buf, v)
EncodeInt ==
  /\ pc = "new"
  /\ \E v \in MinInt .. MaxInt :
       /\ mbuf' = marshal_int(v)
       /\ um' = [NoDecode EXCEPT !.kind = "int", !.src = <<v>>]
       /\ last' = [op |-> "marshal_int", field |-> "", fill |-> TRUE, len |-> INK_MIN_ALIGN,
                   alloc |-> INK_MIN_ALIGN, w |-> marshal_int(v)]
  /\ pc' = "encoded"
  /\ UNCHANGED <<cf, txn, debug, ctx, heap, fmt, rs, cursor>>

\* marshal_str(buf, str, LogAccess::strlen(str))
EncodeStr ==
  /\ pc = "new"
  /\ \E str \in StrSet :
       \E w \in {marshal_str(str, LogAccess_strlen(str), debug)} :
         /\ mbuf' = Store(Fill(LogAccess_strlen(str), Undef), 0, w)
         /\ um' = [NoDecode EXCEPT !.kind = "str", !.src = str]
         /\ last' = [op |-> "marshal_str", field |-> "", fill |-> TRUE,
                     len |-> LogAccess_strlen(str), alloc |-> LogAccess_strlen(str), w |-> w]
  /\ pc' = "encoded"
  /\ UNCHANGED <<cf, txn, debug, ctx, heap, fmt, rs, cursor>>

\* marshal_mem(buf, str, len, round_strlen(len + 1))
EncodeMem ==
  /\ pc = "new"
  /\ \E str \in StrSet \ {NULLSTR} :
       \E w \in {marshal_mem(str \o <<0>>, Len(str), round_strlen(Len(str) + 1), debug)} :
         /\ mbuf' = Store(Fill(round_strlen(Len(str) + 1), Undef), 0, w)
         /\ um' = [NoDecode EXCEPT !.kind = "str", !.src = str]
         /\ last' = [op |-> "marshal_mem", field |-> "", fill |-> TRUE,
                     len |-> round_strlen(Len(str) + 1),
                     alloc |-> round_strlen(Len(str) + 1), w |-> w]
  /\ pc' = "encoded"
  /\ UNCHANGED <<cf, txn, debug, ctx, heap, fmt, rs, cursor>>

\* a field of a transaction: init, the length query and the fill into a
\* buffer of the size the fill returned
EncodeField ==
  /\ pc = "new"
  /\ \E f \in CodecFields, t \in CodecTxnSet :
       \E i \in {LogAccess_init(CtxNew, HeapNew(t), t)} :
         \E q \in {Marshal(f, i.ctx, i.heap, t, debug, FALSE)} :
           \E r \in {Marshal(f, q.ctx, q.heap, t, debug, TRUE)} :
             /\ txn' = t
             /\ ctx' = r.ctx
             /\ heap' = r.heap
             /\ mbuf' = Store(Fill(r.len, Undef), 0, r.w)
             /\ um' = [NoDecode EXCEPT !.kind = f]
             /\ last' = [op |-> "marshal", field |-> f, fill |-> TRUE, len |-> r.len,
                         alloc |-> q.len, w |-> r.w]
  /\ pc' = "encoded"
  /\ UNCHANGED <<cf, debug, fmt, rs, cursor>>

\* what a decoder call leaves behind
Decoded(op, len, slice, json, r, ub) ==
  /\ um' = [um EXCEPT !.op = op, !.len = len, !.slice = slice, !.json = json,
                      !.ret = r.ret, !.adv = r.adv, !.w = r.w, !.ub = ub]
  /\ cursor' = cursor + r.adv
  /\ pc' = "decoded"
  /\ UNCHANGED <<cf, txn, debug, ctx, heap, mbuf, last, fmt, rs>>

\* unmarshal_int_to_str(&buf, dest, len).  Negating the most negative value
\* overflows the signed type, which is undefined: the value wraps, or the
\* build traps.
UnmarshalIntToStr ==
  /\ pc = "encoded"
  /\ um.kind = "int"
  /\ \E len \in Caps :
       \/ /\ unmarshal_int(mbuf, cursor).val # MinInt
          /\ Decoded("unmarshal_int_to_str", len, NoSlice, FALSE, unmarshal_int_to_str(mbuf, cursor, len), "none")
       \/ /\ unmarshal_int(mbuf, cursor).val = MinInt
          /\ Decoded("unmarshal_int_to_str", len, NoSlice, FALSE, unmarshal_int_to_str(mbuf, cursor, len), "wrap")
       \/ /\ unmarshal_int(mbuf, cursor).val = MinInt
          /\ Decoded("unmarshal_int_to_str", len, NoSlice, FALSE, Dec(0, 0, <<>>), "trap")

\* unmarshal_http_status(&buf, dest, len), with the same undefined negation
UnmarshalHttpStatus ==
  /\ pc = "encoded"
  /\ um.kind = "int"
  /\ \E len \in Caps :
       \/ /\ unmarshal_int(mbuf, cursor).val # MinInt
          /\ Decoded("unmarshal_http_status", len, NoSlice, FALSE, unmarshal_http_status(mbuf, cursor, len), "none")
       \/ /\ unmarshal_int(mbuf, cursor).val = MinInt
          /\ Decoded("unmarshal_http_status", len, NoSlice, FALSE, unmarshal_http_status(mbuf, cursor, len), "wrap")
       \/ /\ unmarshal_int(mbuf, cursor).val = MinInt
          /\ Decoded("unmarshal_http_status", len, NoSlice, FALSE, Dec(0, 0, <<>>), "trap")

\* the capacities handed to the date and time decoders
DateCaps == {0, 7, 8, 9, 10, 11, BigCap}

\* unmarshal_int_to_date_str(&buf, dest, len)
UnmarshalIntToDateStr ==
  /\ pc = "encoded"
  /\ um.kind = "int"
  /\ \E len \in DateCaps :
       Decoded("unmarshal_int_to_date_str", len, NoSlice, FALSE,
               unmarshal_int_to_date_str(mbuf, cursor, len), "none")

\* unmarshal_int_to_time_str(&buf, dest, len)
UnmarshalIntToTimeStr ==
  /\ pc = "encoded"
  /\ um.kind = "int"
  /\ \E len \in DateCaps :
       Decoded("unmarshal_int_to_time_str", len, NoSlice, FALSE,
               unmarshal_int_to_time_str(mbuf, cursor, len), "none")

\* unmarshal_str(&buf, dest, len, slice, escape_type)
UnmarshalStr ==
  /\ pc = "encoded"
  /\ um.kind \in {"str"} \cup StringFields
  /\ StrDefined(mbuf, cursor)
  /\ \E len \in Caps, slice \in SliceSet, json \in BOOLEAN :
       Decoded("unmarshal_str", len, slice, json,
               unmarshal_str(mbuf, cursor, len, slice, json), "none")

\* unmarshal_http_version(&buf, dest, len)
UnmarshalHttpVersion ==
  /\ pc = "encoded"
  /\ um.kind = "client_req_http_version"
  /\ \E len \in Caps :
       Decoded("unmarshal_http_version", len, NoSlice, FALSE,
               unmarshal_http_version(mbuf, cursor, len), "none")

\* unmarshal_http_text(&buf, dest, len, slice, escape_type)
UnmarshalHttpText ==
  /\ pc = "encoded"
  /\ um.kind = "client_req_text"
  /\ \E len \in Caps, slice \in SliceSet, json \in BOOLEAN :
       Decoded("unmarshal_http_text", len, slice, json,
               unmarshal_http_text(mbuf, cursor, len, slice, json), "none")

\* unmarshal_record(&buf, dest, len)
UnmarshalRecord ==
  /\ pc = "encoded"
  /\ um.kind = "record"
  /\ \E len \in Caps :
       Decoded("unmarshal_record", len, NoSlice, FALSE, unmarshal_record(mbuf, cursor, len), "none")

\* unmarshal_ip_to_str(&buf, dest, len)
UnmarshalIpToStr ==
  /\ pc = "encoded"
  /\ um.kind = "client_host_ip"
  /\ \E len \in Caps :
       Decoded("unmarshal_ip_to_str", len, NoSlice, FALSE,
               unmarshal_ip_to_str(mbuf, cursor, len), "none")

\* unmarshal_ip_to_hex(&buf, dest, len)
UnmarshalIpToHex ==
  /\ pc = "encoded"
  /\ um.kind = "client_host_ip"
  /\ \E len \in Caps :
       Decoded("unmarshal_ip_to_hex", len, NoSlice, FALSE,
               unmarshal_ip_to_hex(mbuf, cursor, len), "none")

\* unmarshal_ip(&buf, &endpoint): returns the width it advanced by
UnmarshalIp ==
  /\ pc = "encoded"
  /\ um.kind = "client_host_ip"
  /\ IpDefined(mbuf, cursor)
  /\ \E ip \in {unmarshal_ip(mbuf, cursor)} :
       /\ um' = [um EXCEPT !.op = "unmarshal_ip", !.ret = ip.adv, !.adv = ip.adv,
                           !.ip = [family |-> ip.family, addr |-> ip.addr]]
       /\ cursor' = cursor + ip.adv
  /\ pc' = "decoded"
  /\ UNCHANGED <<cf, txn, debug, ctx, heap, mbuf, last, fmt, rs>>

\* the alias decoders
AliasDecoders ==
  {"unmarshal_hierarchy", "unmarshal_finish_status", "unmarshal_cache_code",
   "unmarshal_cache_hit_miss", "unmarshal_cache_write_code"}

\* the codes handed to the alias decoders
AliasCodes == {MinInt, -1, 0, 1, 2, 3, 1000, MaxInt}

\* the alias maps of the fields: labels for the codes 1 and 3 ("FIN",
\* "TIMEOUT") with no label for 2, and a label for the code 0 only ("-")
AliasMapSet ==
  {[c \in {1, 3} |-> IF c = 1 THEN <<70, 73, 78>> ELSE <<84, 73, 77, 69, 79, 85, 84>>],
   [c \in {0} |-> <<45>>]}

\* the capacities handed to the alias decoders
AliasCaps == 0 .. BigCap

\* what an alias decoder call leaves behind
AliasDecoded(op, len, map, r) ==
  /\ um' = [um EXCEPT !.op = op, !.len = len, !.map = map,
                      !.ret = r.ret, !.adv = r.adv, !.w = r.w]
  /\ cursor' = cursor + r.adv
  /\ pc' = "decoded"
  /\ UNCHANGED <<cf, txn, debug, ctx, heap, mbuf, last, fmt, rs>>

\* unmarshal_hierarchy(&buf, dest, len, map)
UnmarshalHierarchy ==
  /\ pc = "encoded"
  /\ um.kind = "int"
  /\ unmarshal_int(mbuf, cursor).val \in AliasCodes
  /\ \E len \in AliasCaps, map \in AliasMapSet :
       AliasDecoded("unmarshal_hierarchy", len, map, unmarshal_hierarchy(mbuf, cursor, len, map))

\* unmarshal_finish_status(&buf, dest, len, map)
UnmarshalFinishStatus ==
  /\ pc = "encoded"
  /\ um.kind = "int"
  /\ unmarshal_int(mbuf, cursor).val \in AliasCodes
  /\ \E len \in AliasCaps, map \in AliasMapSet :
       AliasDecoded("unmarshal_finish_status", len, map, unmarshal_finish_status(mbuf, cursor, len, map))

\* unmarshal_cache_code(&buf, dest, len, map)
UnmarshalCacheCode ==
  /\ pc = "encoded"
  /\ um.kind = "int"
  /\ unmarshal_int(mbuf, cursor).val \in AliasCodes
  /\ \E len \in AliasCaps, map \in AliasMapSet :
       AliasDecoded("unmarshal_cache_code", len, map, unmarshal_cache_code(mbuf, cursor, len, map))

\* unmarshal_cache_hit_miss(&buf, dest, len, map)
UnmarshalCacheHitMiss ==
  /\ pc = "encoded"
  /\ um.kind = "int"
  /\ unmarshal_int(mbuf, cursor).val \in AliasCodes
  /\ \E len \in AliasCaps, map \in AliasMapSet :
       AliasDecoded("unmarshal_cache_hit_miss", len, map, unmarshal_cache_hit_miss(mbuf, cursor, len, map))

\* unmarshal_cache_write_code(&buf, dest, len, map)
UnmarshalCacheWriteCode ==
  /\ pc = "encoded"
  /\ um.kind = "int"
  /\ unmarshal_int(mbuf, cursor).val \in AliasCodes
  /\ \E len \in AliasCaps, map \in AliasMapSet :
       AliasDecoded("unmarshal_cache_write_code", len, map, unmarshal_cache_write_code(mbuf, cursor, len, map))

\* a string decoder on a buffer that holds no terminated string: the scan
\* for the NUL leaves the buffer, with no defined outcome
UnmarshalStrUndefined ==
  /\ pc = "encoded"
  /\ um.kind \in {"str"} \cup StringFields
  /\ ~StrDefined(mbuf, cursor)
  /\ um' = [um EXCEPT !.op = "unmarshal_str", !.ub = "overread"]
  /\ pc' = "decoded"
  /\ UNCHANGED <<cf, txn, debug, ctx, heap, mbuf, last, fmt, rs, cursor>>

NextCodec ==
  \/ EncodeInt
  \/ EncodeStr
  \/ EncodeMem
  \/ EncodeField
  \/ UnmarshalIntToStr
  \/ UnmarshalHttpStatus
  \/ UnmarshalIntToDateStr
  \/ UnmarshalIntToTimeStr
  \/ UnmarshalStr
  \/ UnmarshalHttpVersion
  \/ UnmarshalHttpText
  \/ UnmarshalRecord
  \/ UnmarshalIpToStr
  \/ UnmarshalIpToHex
  \/ UnmarshalIp
  \/ UnmarshalHierarchy
  \/ UnmarshalFinishStatus
  \/ UnmarshalCacheCode
  \/ UnmarshalCacheHitMiss
  \/ UnmarshalCacheWriteCode
  \/ UnmarshalStrUndefined

SpecCodec == InitCodec /\ [][NextCodec]_vars

\* ---------------------------------------------------------------- claims

\* the step is a length query on the context
LengthQueryStep ==
  /\ pc = "ready"
  /\ txn' = txn
  /\ last'.op = "marshal"
  /\ ~last'.fill

\* the members of the context that cache a derived string, with the member
\* that holds its length
CachedStrings ==
  {<<"m_client_req_url_str", "m_client_req_url_len">>,
   <<"m_client_req_url_canon_str", "m_client_req_url_canon_len">>,
   <<"m_client_req_url_path_str", "m_client_req_url_path_len">>,
   <<"m_client_req_unmapped_url_canon_str", "m_client_req_unmapped_url_canon_len">>,
   <<"m_client_req_unmapped_url_path_str", "m_client_req_unmapped_url_path_len">>,
   <<"m_client_req_unmapped_url_host_str", "m_client_req_unmapped_url_host_len">>,
   <<"m_cache_lookup_url_canon_str", "m_cache_lookup_url_canon_len">>}

\* C1: in a fill call the encoder returns the length its length query
\* returned just before on the same context (Spec: every fill follows the
\* length query of the same field), proxy_protocol_authority included.
C1_LengthAgreement ==
  (last.op = "marshal" /\ last.fill) => last.len = last.alloc

\* C5: after marshal_str or marshal_mem stored a string into a buffer of
\* the padded length L, the L bytes of the buffer are the bytes of the
\* string (the default marker for a null or empty one), one NUL, and zero
\* bytes up to L.
C5_StringBytesDefined ==
  (pc = "encoded" /\ last.op \in {"marshal_str", "marshal_mem"}) =>
    LET str == IF um.src = NULLSTR \/ um.src = <<>> THEN DEFAULT_STR ELSE um.src
    IN mbuf = str \o <<0>> \o Fill(last.len - Len(str) - 1, 0)

\* C6: the length a field encoder returns, in a length query and in a
\* fill, is a positive multiple of INK_MIN_ALIGN.
C6_AlignedLength ==
  last.op = "marshal" => (last.len > 0 /\ last.len % INK_MIN_ALIGN = 0)

\* C8, as stated: a length query leaves the buffers and the context with
\* its cached strings, their lengths and the arena as they were, and a
\* repeated length query of a field returns the same length.
C8_LengthQueryLeavesContext ==
  [][LengthQueryStep =>
       /\ mbuf' = mbuf
       /\ last'.w = <<>>
       /\ ctx' = ctx
       /\ heap' = heap
       /\ (last.op = "marshal" /\ ~last.fill /\ last.field = last'.field)
            => last'.len = last.len]_vars

\* C8, amended: a length query stores no byte at any destination and a
\* repeated length query of a field returns the same length; in the
\* context it only fills cached strings that were still unset, and it only
\* adds to the arena: a cached string that is set keeps its pointer and its
\* length, and the strings already in the arena keep their bytes.
C8_LengthQueryOnlyFillsCaches ==
  [][LengthQueryStep =>
       /\ mbuf' = mbuf
       /\ last'.w = <<>>
       /\ ctx'.m_client_request = ctx.m_client_request
       /\ ctx'.arena >= ctx.arena
       /\ \A m \in CachedStrings :
            ctx[m[1]] # NULLP => (ctx'[m[1]] = ctx[m[1]] /\ ctx'[m[2]] = ctx[m[2]])
       /\ \A o \in HeapObjects : heap[o] # <<>> => heap'[o] = heap[o]
       /\ (last.op = "marshal" /\ ~last.fill /\ last.field = last'.field)
            => last'.len = last.len]_vars

\* C8 witness: a length query has filled the cached unmapped URL of a
\* context, allocating its escaped form from the arena.
C8_Witness ==
  /\ last.op = "marshal"
  /\ ~last.fill
  /\ last.field = "client_req_unmapped_url_canon"
  /\ ctx.m_client_req_unmapped_url_canon_str = Ptr("unmapped_canon", 0)
  /\ heap["unmapped_canon"] # <<>>

\* C9: marshal_record returns MARSHAL_RECORD_LENGTH in the length pass and
\* in the fill pass, whatever the record and even when its value changed
\* between the passes; the fill stores at most that many bytes, a NUL among
\* them; unmarshal_record advances the cursor by that length.
C9_RecordFixedLength ==
  /\ \A i \in 1 .. Len(rs.lenPass) :
       rs.lenPass[i].field = "record" => rs.lenPass[i].len = MARSHAL_RECORD_LENGTH
  /\ \A i \in 1 .. Len(rs.fillPass) :
       rs.fillPass[i].field = "record" =>
         /\ rs.fillPass[i].len = MARSHAL_RECORD_LENGTH
         /\ Len(rs.fillPass[i].w) <= MARSHAL_RECORD_LENGTH
         /\ \E k \in 1 .. Len(rs.fillPass[i].w) : rs.fillPass[i].w[k] = 0
  /\ \A i \in 1 .. Len(rs.decPass) :
       rs.decPass[i].field = "record" => rs.decPass[i].adv = MARSHAL_RECORD_LENGTH

\* C9 witness: a record field was resolved whose statistic changed from the
\* most negative value to 0 after the length pass; the fill stored "0".
C9_Witness ==
  /\ pc = "done"
  /\ rs.result = "text"
  /\ fmt = <<"record">>
  /\ txn.record = Rec("INT", TRUE, 0, <<>>, <<>>)
  /\ rs.fillPass[1].w = <<48, 0>>
  /\ rs.decPass[1].w = <<48>>

\* C3: every decoder advances the cursor by the number of bytes the
\* encoder of the field returned when it stored the field.
C3_WidthAgreement ==
  \A i \in 1 .. Len(rs.decPass) : rs.decPass[i].adv = rs.fillPass[i].len

\* the sum of the lengths of a pass
RECURSIVE SumLen(_)
SumLen(pass) == IF pass = <<>> THEN 0 ELSE Head(pass).len + SumLen(Tail(pass))

\* C4: resolve_logfield_string initialises the context, then runs the
\* whole length pass, allocates that many bytes, runs the whole fill pass
\* over the same fields in the same order, and only then decodes; the fill
\* pass stores no byte outside the allocated buffer.
C4_TwoPassOrdering ==
  /\ rs.lenPass # <<>> => last.op # "none"
  /\ \A i \in 1 .. Len(rs.lenPass) : rs.lenPass[i].field = fmt[i]
  /\ rs.fillPass # <<>> => (Len(rs.lenPass) = Len(fmt) /\ rs.bytes_needed = SumLen(rs.lenPass))
  /\ \A i \in 1 .. Len(rs.fillPass) :
       rs.fillPass[i].field = fmt[i] /\ rs.fillPass[i].at = SumLen(SubSeq(rs.fillPass, 1, i - 1))
  /\ rs.decPass # <<>> => Len(rs.fillPass) = Len(fmt)
  /\ pc \in {"marshal", "assert", "unmarshal"} => Len(mbuf) >= rs.bytes_needed
  /\ ~rs.outside

\* the string-typed fields, and whether the source string of one is null
\* or empty
EmptySource(f) ==
  CASE f = "proxy_host_name" -> txn.host_name \in {NULLSTR, <<>>}
    [] f = "client_auth_user_name" -> TRUE
    [] f = "server_host_name" -> ~txn.server \/ txn.server_name \in {NULLSTR, <<>>}
    [] f = "proxy_protocol_authority" -> txn.authority \in {NULLSTR, <<>>}
    [] f = "client_req_http_method" -> ~ctx.m_client_request \/ txn.method = <<>>
    [] f = "client_req_url" -> ctx.m_client_req_url_len = 0
    [] f = "client_req_url_canon" -> ctx.m_client_req_url_canon_len = 0
    [] f = "client_req_url_path" -> ctx.m_client_req_url_path_len = 0
    [] f \in {"http_header_field", "http_header_field_escapify"} ->
         ~ctx.m_client_request \/ txn.hdr = <<>> \/ JoinDups(txn.hdr, <<44, 32>>) = <<>>
    [] OTHER -> FALSE

\* C7: a string-typed field whose source string is null or empty decodes
\* to the default marker, a header field that is present with an empty
\* value included.
C7_DefaultMarker ==
  \A i \in 1 .. Len(rs.decPass) :
    EmptySource(rs.decPass[i].field) =>
      (rs.decPass[i].ret = DEFAULT_STR_LEN /\ rs.decPass[i].w = DEFAULT_STR)

\* what the last decoder call returns when its destination is large
NaturalLength ==
  CASE um.op = "unmarshal_int_to_str" -> unmarshal_int_to_str(mbuf, 0, BigCap).ret
    [] um.op = "unmarshal_str" -> unmarshal_str(mbuf, 0, BigCap, um.slice, um.json).ret
    [] um.op = "unmarshal_http_version" -> unmarshal_http_version(mbuf, 0, BigCap).ret
    [] um.op = "unmarshal_http_text" ->
         unmarshal_http_text(mbuf, 0, BigCap, um.slice, um.json).ret
    [] um.op = "unmarshal_record" -> unmarshal_record(mbuf, 0, BigCap).ret
    [] um.op = "unmarshal_ip_to_str" -> unmarshal_ip_to_str(mbuf, 0, BigCap).ret
    [] um.op = "unmarshal_ip_to_hex" -> unmarshal_ip_to_hex(mbuf, 0, BigCap).ret
    [] um.op = "unmarshal_int_to_date_str" -> unmarshal_int_to_date_str(mbuf, 0, BigCap).ret
    [] um.op = "unmarshal_int_to_time_str" -> unmarshal_int_to_time_str(mbuf, 0, BigCap).ret
    [] um.op = "unmarshal_ip" -> 0
    [] um.op \in AliasDecoders ->
         unmarshal_with_map(um.src[1], BigCap, um.map, AliasMsg(um.op)).ret
    [] um.op = "unmarshal_http_status" -> unmarshal_http_status(mbuf, 0, BigCap).ret

\* C2: a decoder given a destination of capacity len stores no byte
\* outside dest[0 .. len-1], the separators of unmarshal_http_text
\* included, and returns -1 when the text is longer than len.
C2_OverrunSafety ==
  (pc = "decoded" /\ um.ub = "none") =>
    /\ \A i \in 1 .. Len(um.w) : um.w[i] # NoWrite => i <= um.len
    /\ NaturalLength > um.len => um.ret = -1

\* C10: unmarshal_int_to_str of the scalar encoding of v, with a large
\* destination, stores the canonical decimal text of v and returns its
\* length, for every v of the integer type.
C10_IntRoundTrip ==
  (pc = "decoded" /\ um.op = "unmarshal_int_to_str" /\ um.len = BigCap) =>
    /\ um.ub # "trap"
    /\ um.w = CanonicalDecimal(um.src[1])
    /\ um.ret = Len(CanonicalDecimal(um.src[1]))

\* C11: marshal_ip followed by unmarshal_ip gives an endpoint of the same
\* family with the same address for an IPv4, IPv6 or Unix-path address and
\* an invalid endpoint for a null or other address, and unmarshal_ip
\* returns and advances by the aligned width marshal_ip returned.
C11_IpRoundTrip ==
  (pc = "decoded" /\ um.op = "unmarshal_ip") =>
    /\ um.ret = last.len
    /\ um.adv = last.len
    /\ last.alloc = last.len
    /\ last.len % INK_MIN_ALIGN = 0
    /\ IF txn.ip.family \in {"inet", "inet6", "unix"}
         THEN um.ip = txn.ip
         ELSE um.ip.family = "other"

\* C11 witness: a Unix-path address came back from unmarshal_ip
C11_Witness ==
  /\ pc = "decoded"
  /\ um.op = "unmarshal_ip"
  /\ txn.ip = [family |-> "unix", addr |-> <<47, 115>>]
  /\ um.ip = txn.ip
  /\ um.ret = INK_ALIGN_DEFAULT(SizeofLogFieldUn)

\* the text "HTTP/<major>.<minor>" of a version
VersionText(version) ==
  HTTP_PREFIX \o CanonicalDecimal(version[1]) \o <<46>> \o CanonicalDecimal(version[2])

\* C12: unmarshal_http_version of two encoded integers major and minor, with
\* a large destination, stores "HTTP/<major>.<minor>", returns the length of
\* that text and advances the cursor past both integers.
C12_HttpVersionText ==
  (pc = "decoded" /\ um.op = "unmarshal_http_version" /\ um.len = BigCap) =>
    /\ um.w = VersionText(txn.version)
    /\ um.ret = Len(VersionText(txn.version))
    /\ um.adv = 2 * INK_MIN_ALIGN

\* the text a string field decodes to: the default marker for an empty one
FieldText(str) == IF str = NULLSTR \/ str = <<>> THEN DEFAULT_STR ELSE str

\* the request line "<method> <url> HTTP/<major>.<minor>" of a transaction
RequestLine(t) ==
  FieldText(t.method) \o <<32>> \o FieldText(t.url) \o <<32>> \o VersionText(t.version)

\* C13: marshal_client_req_text lays out the method, the URL and the version
\* in that order, its length the sum of the three encodings;
\* unmarshal_http_text with a large destination stores
\* "<method> <url> <version>" and returns the three lengths plus 2; and it
\* returns -1 when one of its three decodes returns -1.
C13_RequestLine ==
  (pc = "decoded" /\ um.op = "unmarshal_http_text") =>
    LET m == marshal_client_req_http_method(ctx, heap, txn, debug, TRUE)
        u == marshal_client_req_url(ctx, heap, txn, debug, TRUE)
        v == marshal_client_req_http_version(ctx, heap, txn, debug, TRUE)
        r1 == unmarshal_str(mbuf, 0, um.len, NoSlice, um.json)
        r2 == unmarshal_str(mbuf, r1.adv, um.len - r1.ret - 1, um.slice, um.json)
        r3 == unmarshal_http_version(mbuf, r1.adv + r2.adv, um.len - r1.ret - r2.ret - 2)
    IN /\ last.len = m.len + u.len + v.len
       /\ last.alloc = last.len
       /\ SubSeq(mbuf, 1, m.len) = Store(Fill(m.len, Undef), 0, m.w)
       /\ SubSeq(mbuf, m.len + 1, m.len + u.len) = Store(Fill(u.len, Undef), 0, u.w)
       /\ SubSeq(mbuf, m.len + u.len + 1, last.len) = Store(Fill(v.len, Undef), 0, v.w)
       /\ (r1.ret < 0 \/ (r1.ret >= 0 /\ r2.ret < 0)
             \/ (r1.ret >= 0 /\ r2.ret >= 0 /\ r3.ret < 0)) => um.ret = -1
       /\ (um.len = BigCap /\ ~um.slice.m_enable /\ ~um.json) =>
            /\ um.w = RequestLine(txn)
            /\ um.ret = Len(RequestLine(txn))

\* the three decimal digits of a value below 1000, zeros in front
ThreeDigits(v) == <<48 + (v \div 100), 48 + ((v \div 10) % 10), 48 + (v % 10)>>

\* C14: unmarshal_http_status of an encoded value v stores exactly three
\* digits, zeros in front, and returns 3 when 0 <= v <= 999 and the capacity
\* is above 3; a value of four or more digits is stored in full when the
\* capacity is above its length.
C14_HttpStatusDigits ==
  (pc = "decoded" /\ um.op = "unmarshal_http_status") =>
    /\ (um.src[1] \in 0 .. 999 /\ um.len > 3) =>
         (um.w = ThreeDigits(um.src[1]) /\ um.ret = 3)
    /\ (um.src[1] >= 1000 /\ um.len > Len(Digits(um.src[1]))) =>
         (um.w = Digits(um.src[1]) /\ um.ret = Len(Digits(um.src[1])))
    /\ um.adv = INK_MIN_ALIGN \/ um.ub = "trap"

\* C14 witness: the status 42 was decoded to "042"
C14_Witness ==
  /\ pc = "decoded"
  /\ um.op = "unmarshal_http_status"
  /\ um.src = <<42>>
  /\ um.len = 4
  /\ um.w = <<48, 52, 50>>
  /\ um.ret = 3

\* the text "<prefix>(C)" an alias decoder gives a code C without a label
FallbackText(dec, code) == AliasMsg(dec) \o <<40>> \o CanonicalDecimal(code) \o <<41>>

\* C15: an alias decoder given a code without a label in the map stores
\* "<prefix>(C)" with its own prefix and returns the length of that text
\* when the text is shorter than the capacity, and returns -1 otherwise; a
\* code with a label gives the label.
C15_AliasFallback ==
  (pc = "decoded" /\ um.op \in AliasDecoders) =>
    LET code == um.src[1]
        text == FallbackText(um.op, code)
    IN /\ (code \notin DOMAIN um.map /\ Len(text) < um.len) =>
            (um.ret = Len(text) /\ Take(um.w, um.ret) = text)
       /\ (code \notin DOMAIN um.map /\ Len(text) >= um.len) => um.ret = -1
       /\ (code \in DOMAIN um.map /\ Len(um.map[code]) < um.len) =>
            (um.ret = Len(um.map[code]) /\ Take(um.w, um.ret) = um.map[code])
       /\ um.adv = INK_MIN_ALIGN

\* C15 witness: unmarshal_finish_status gave the code 2, which has no
\* label, the text "UNKNOWN_FINISH_CODE(2)" in a destination one byte longer
C15_Witness ==
  /\ pc = "decoded"
  /\ um.op = "unmarshal_finish_status"
  /\ um.src = <<2>>
  /\ 2 \notin DOMAIN um.map
  /\ um.len = 23
  /\ um.ret = 22
  /\ Take(um.w, 22) = AliasMsg("unmarshal_finish_status") \o <<40, 50, 41>>

\* C16: unmarshal_str without escaping and with an enabled slice that
\* resolves to offset o and length n stores the n characters of the stored
\* string from o on and returns n when 0 < n < len; when n <= 0 it returns
\* 0 and stores nothing, whatever the capacity.
C16_SliceExtraction ==
  (pc = "decoded" /\ um.op = "unmarshal_str" /\ um.ub = "none"
     /\ um.slice.m_enable /\ ~um.json) =>
    LET src == c_str(mbuf, 0)
        so == toStrOffset(um.slice, Len(src))
    IN /\ (so.n > 0 /\ so.n < um.len) =>
            (um.w = SubSeq(src, so.offset + 1, so.offset + so.n) /\ um.ret = so.n)
       /\ so.n <= 0 => (um.ret = 0 /\ um.w = <<>>)

\* C16 witness: the slice [2:5] of "abcdefgh" was decoded to "cde"
C16_Witness ==
  /\ pc = "decoded"
  /\ um.op = "unmarshal_str"
  /\ ~um.json
  /\ um.src = <<97, 98, 99, 100, 101, 102, 103, 104>>
  /\ um.slice = [m_enable |-> TRUE, m_start |-> 2, m_end |-> 5]
  /\ um.w = <<99, 100, 101>>
  /\ um.ret = 3

\* the short escape of a byte, or 0: \b \t \n \f \r \\ \" \/
ShortEscape(c) ==
  CASE c = 8 -> 98
    [] c = 9 -> 116
    [] c = 10 -> 110
    [] c = 12 -> 102
    [] c = 13 -> 114
    [] c \in {92, 34, 47} -> c
    [] OTHER -> 0

\* lower-case hexadecimal digit
LowerHex(n) == IF n < 10 THEN 48 + n ELSE 87 + n

\* the JSON escape of one byte: the short escapes, \u00XX for the other
\* bytes below 0x20 and for 0x7F, and every other byte unchanged
JsonByte(c) ==
  IF ShortEscape(c) # 0 THEN <<92, ShortEscape(c)>>
  ELSE IF c < 32 \/ c = 127 THEN <<92, 117, 48, 48, LowerHex(c \div 16), LowerHex(c % 16)>>
  ELSE <<c>>

\* the JSON escape of a string, byte by byte
RECURSIVE JsonText(_)
JsonText(str) == IF str = <<>> THEN <<>> ELSE JsonByte(Head(str)) \o JsonText(Tail(str))

\* C17: decoding a stored string with JSON escaping and a large destination
\* stores the string with each byte below 0x20 and the byte 0x7F as \u00XX,
\* the eight short escapes as two characters and every other byte, 0x80 to
\* 0xFF included, unchanged, and returns the length of that text.
C17_JsonEscapeTable ==
  (pc = "decoded" /\ um.op = "unmarshal_str" /\ um.ub = "none" /\ um.json
     /\ ~um.slice.m_enable /\ um.len = BigCap) =>
    /\ um.w = JsonText(c_str(mbuf, 0))
    /\ um.ret = Len(JsonText(c_str(mbuf, 0)))

\* the stored string escaped in full, as a decode without a slice gives it
EscapedForm(src) == escape_json(FALSE, src, Len(src))

\* C18: unmarshal_str with JSON escaping and an enabled slice resolves the
\* slice against the escaped text and, when the resolved length n is
\* positive and below the capacity, stores the characters
\* [offset, offset + n) of the fully escaped string and returns n.
C18_JsonSlice ==
  (pc = "decoded" /\ um.op = "unmarshal_str" /\ um.ub = "none" /\ um.json
     /\ um.slice.m_enable) =>
    LET esc == EscapedForm(c_str(mbuf, 0))
        so == toStrOffset(um.slice, Len(esc))
    IN (so.n > 0 /\ so.n < um.len) =>
         (um.w = SubSeq(esc, so.offset + 1, so.offset + so.n) /\ um.ret = so.n)

\* resolve_logfield_string has neither initialised the context nor run an
\* encoder or a decoder
NothingResolved ==
  /\ ctx = CtxNew
  /\ heap = HeapNew(txn)
  /\ mbuf = <<>>
  /\ last = NoCall
  /\ cursor = 0
  /\ rs.lenPass = <<>>
  /\ rs.fillPass = <<>>
  /\ rs.decPass = <<>>

\* C19: when the number of fields parsed differs from the number of
\* specifiers of the format, or the context or the format is null,
\* resolve_logfield_string returns null with no output, and has neither
\* initialised the context nor run an encoder or a decoder.
C19_UnknownFieldRejected ==
  (rs.n_fields # rs.field_count \/ rs.args # "ok") =>
    /\ pc = "done"
    /\ rs.result = "null"
    /\ rs.copy = <<>>
    /\ NothingResolved

\* C19 witness: the format of a known field and an unknown symbol was
\* rejected
C19_Witness ==
  /\ pc = "done"
  /\ rs.format = <<"record", BOGUS>>
  /\ rs.n_fields = 2
  /\ rs.field_count = 1
  /\ rs.result = "null"

\* C20: for a format without a field specifier resolve_logfield_string
\* returns a copy equal to the format, and has neither initialised the
\* context nor run an encoder or a decoder.
C20_NoFieldsVerbatim ==
  (pc # "start" /\ rs.args = "ok" /\ rs.n_fields = 0) =>
    /\ pc = "done"
    /\ rs.result = "copy"
    /\ rs.copy = rs.format
    /\ NothingResolved

\* C20 witness: a format of literal text only came back as its copy
C20_Witness ==
  /\ pc = "done"
  /\ rs.format = <<TEXT>>
  /\ rs.n_fields = 0
  /\ rs.result = "copy"
  /\ rs.copy = <<TEXT>>

\* the step is an encoder call on the context
EncoderStep ==
  /\ pc = "ready"
  /\ txn' = txn
  /\ last'.op = "marshal"

\* the fields whose encoders call validate_unmapped_url
UnmappedFields ==
  {"client_req_unmapped_url_canon", "client_req_unmapped_url_path",
   "client_req_unmapped_url_host"}

\* the cached strings a step has derived into the arena
NewlyEscaped ==
  {m \in {<<"m_client_req_unmapped_url_canon_str", "unmapped_canon">>,
          <<"m_cache_lookup_url_canon_str", "lookup_canon">>} :
     ctx[m[1]] = NULLP /\ ctx'[m[1]] = Ptr(m[2], 0)}

\* C21: an encoder call that runs validate_unmapped_url, validate_lookup_url
\* or validate_unmapped_url_path leaves the cache it validates set (to the
\* sentinel when the source URL is absent), and once a cache is set every
\* later encoder call keeps its pointer and its length, leaves the bytes of
\* its escaped form alone and allocates nothing from the arena for it.
C21_DerivedOnce ==
  [][EncoderStep =>
       /\ last'.field \in UnmappedFields =>
            ctx'.m_client_req_unmapped_url_canon_str # NULLP
       /\ last'.field \in UnmappedFields \ {"client_req_unmapped_url_canon"} =>
            ctx'.m_client_req_unmapped_url_host_str # NULLP
       /\ last'.field = "cache_lookup_url_canon" =>
            ctx'.m_cache_lookup_url_canon_str # NULLP
       /\ ctx.m_client_req_unmapped_url_canon_str # NULLP =>
            /\ ctx'.m_client_req_unmapped_url_canon_str = ctx.m_client_req_unmapped_url_canon_str
            /\ ctx'.m_client_req_unmapped_url_canon_len = ctx.m_client_req_unmapped_url_canon_len
            /\ heap'["unmapped_canon"] = heap["unmapped_canon"]
       /\ ctx.m_cache_lookup_url_canon_str # NULLP =>
            /\ ctx'.m_cache_lookup_url_canon_str = ctx.m_cache_lookup_url_canon_str
            /\ ctx'.m_cache_lookup_url_canon_len = ctx.m_cache_lookup_url_canon_len
            /\ heap'["lookup_canon"] = heap["lookup_canon"]
       /\ ctx.m_client_req_unmapped_url_host_str # NULLP =>
            /\ ctx'.m_client_req_unmapped_url_host_str = ctx.m_client_req_unmapped_url_host_str
            /\ ctx'.m_client_req_unmapped_url_host_len = ctx.m_client_req_unmapped_url_host_len
            /\ ctx'.m_client_req_unmapped_url_path_str = ctx.m_client_req_unmapped_url_path_str
            /\ ctx'.m_client_req_unmapped_url_path_len = ctx.m_client_req_unmapped_url_path_len
       /\ last'.field \in UnmappedFields \cup {"cache_lookup_url_canon"} =>
            ctx'.arena = ctx.arena + Cardinality(NewlyEscaped)]_vars

\* C21 witness: the fill call of the unmapped path, which follows the length
\* query of the same field, on a context whose transaction has no unmapped
\* URL: the sentinel is in the cache.
C21_Witness ==
  /\ last.op = "marshal"
  /\ last.fill
  /\ last.field = "client_req_unmapped_url_path"
  /\ txn.unmapped = NULLSTR
  /\ ctx.m_client_req_unmapped_url_canon_str = INVALID_STR
  /\ ctx.m_client_req_unmapped_url_path_str = INVALID_STR

\* the step is the encoder call that derives the host and the path of the
\* unmapped URL
DecompositionStep ==
  /\ EncoderStep
  /\ ctx.m_client_req_unmapped_url_host_str = NULLP
  /\ ctx'.m_client_req_unmapped_url_host_str # NULLP

\* the number of bytes before the first ':' of s; Len(s) when it has none
SchemeLength(s) ==
  IF \E i \in 1 .. Len(s) : s[i] = 58
    THEN (CHOOSE i \in 1 .. Len(s) : s[i] = 58 /\ \A j \in 1 .. i - 1 : s[j] # 58) - 1
    ELSE Len(s)

\* s starts with a scheme of at most 5 characters and "://"
SchemePrefix(s) ==
  LET k == SchemeLength(s)
  IN k <= 5 /\ k + 3 <= Len(s) /\ SubSeq(s, k + 1, k + 3) = <<58, 47, 47>>

\* the length of the host of s: the bytes after "://" before the next '/';
\* -1 when no '/' follows
HostLength(s) ==
  LET from == SchemeLength(s) + 4
  IN IF \E i \in from .. Len(s) : s[i] = 47
       THEN (CHOOSE i \in from .. Len(s) : s[i] = 47 /\ \A j \in from .. i - 1 : s[j] # 47) - from
       ELSE -1

\* the cached host is the n bytes at offset k of the canonical string
HostIs(c, k, n) ==
  /\ c.m_client_req_unmapped_url_host_str =
       Ptr(c.m_client_req_unmapped_url_canon_str.obj, c.m_client_req_unmapped_url_canon_str.off + k)
  /\ c.m_client_req_unmapped_url_host_len = n

\* the cached path is the n bytes at offset k of the canonical string
PathIs(c, k, n) ==
  /\ c.m_client_req_unmapped_url_path_str =
       Ptr(c.m_client_req_unmapped_url_canon_str.obj, c.m_client_req_unmapped_url_canon_str.off + k)
  /\ c.m_client_req_unmapped_url_path_len = n

\* C22, as stated: when the canonical unmapped URL has a scheme of at most 5
\* characters, "://" and a later '/', the host is the text between "://" and
\* that '/', the path the text from that '/' to the end, and scheme + 3 +
\* host + path is the canonical length; when it has no such prefix, the host
\* and the path are both the whole canonical string.
C22_Decomposition ==
  [][(DecompositionStep /\ ctx'.m_client_req_unmapped_url_canon_str # INVALID_STR) =>
       LET n == ctx'.m_client_req_unmapped_url_canon_len
           s == MemRead(heap', ctx'.m_client_req_unmapped_url_canon_str, n)
           k == SchemeLength(s)
           hl == HostLength(s)
       IN /\ (SchemePrefix(s) /\ hl >= 0) =>
               /\ HostIs(ctx', k + 3, hl)
               /\ PathIs(ctx', k + 3 + hl, n - (k + 3 + hl))
               /\ k + 3 + ctx'.m_client_req_unmapped_url_host_len
                    + ctx'.m_client_req_unmapped_url_path_len = n
          /\ ~SchemePrefix(s) => (HostIs(ctx', 0, n) /\ PathIs(ctx', 0, n))]_vars

\* C22, amended: the decomposition is made when the canonical string has at
\* least 6 characters; a prefix without a later '/' gives the rest of the
\* string as host and the whole string as path; without a well-formed prefix,
\* or when the string is shorter than 6, the path is the whole canonical
\* string and the host is the sentinel with length 0; when the unmapped URL
\* is absent both are the sentinel with length 0.
C22_DecompositionOrSentinel ==
  [][DecompositionStep =>
       LET n == ctx'.m_client_req_unmapped_url_canon_len
           s == MemRead(heap', ctx'.m_client_req_unmapped_url_canon_str, n)
           k == SchemeLength(s)
           hl == HostLength(s)
           NoHost == /\ ctx'.m_client_req_unmapped_url_host_str = INVALID_STR
                     /\ ctx'.m_client_req_unmapped_url_host_len = 0
       IN IF ctx'.m_client_req_unmapped_url_canon_str = INVALID_STR
            THEN /\ NoHost
                 /\ ctx'.m_client_req_unmapped_url_path_str = INVALID_STR
                 /\ ctx'.m_client_req_unmapped_url_path_len = 0
            ELSE IF n >= 6 /\ SchemePrefix(s)
              THEN IF hl >= 0
                     THEN /\ HostIs(ctx', k + 3, hl)
                          /\ PathIs(ctx', k + 3 + hl, n - (k + 3 + hl))
                          /\ k + 3 + ctx'.m_client_req_unmapped_url_host_len
                               + ctx'.m_client_req_unmapped_url_path_len = n
                     ELSE HostIs(ctx', k + 3, n - (k + 3)) /\ PathIs(ctx', 0, n)
              ELSE NoHost /\ PathIs(ctx', 0, n)]_vars

\* C22 witness: the unmapped URL "h://b c/d" was escaped to "h://b%20c/d" and
\* decomposed into the host "b%20c" and the path "/d".
C22_Witness ==
  /\ last.op = "marshal"
  /\ last.field = "client_req_unmapped_url_host"
  /\ ctx.m_client_req_unmapped_url_canon_str = Ptr("unmapped_canon", 0)
  /\ ctx.m_client_req_unmapped_url_canon_len = 11
  /\ ctx.m_client_req_unmapped_url_host_str = Ptr("unmapped_canon", 4)
  /\ ctx.m_client_req_unmapped_url_host_len = 5
  /\ ctx.m_client_req_unmapped_url_path_str = Ptr("unmapped_canon", 9)
  /\ ctx.m_client_req_unmapped_url_path_len = 2

\* C23: a fill call of a scalar field stores one alignment unit of defined
\* bytes at the destination, the default value when the source is absent;
\* marshal_file_size does so too when no size can be determined.
C23_ScalarStored ==
  (last.op = "marshal" /\ last.fill /\ last.field \in ScalarFields) =>
    /\ last.len = INK_MIN_ALIGN
    /\ Len(last.w) = INK_MIN_ALIGN
    /\ \A i \in 1 .. Len(last.w) : last.w[i] \in 0 .. 255
    /\ (last.field = "server_resp_squid_len" /\ ~ctx.m_server_response) =>
         last.w = marshal_int(0)

\* C24: a decoder that returns -1 has still advanced the cursor by the
\* whole width of the encoded field, so that the next field can be decoded:
\* unmarshal_http_text also when its first or second part does not fit,
\* unmarshal_ip_to_str and unmarshal_ip_to_hex also when the capacity is
\* not positive.
C24_AdvanceOnFailure ==
  (pc = "decoded" /\ um.ub = "none" /\ um.ret = -1) =>
    (um.adv = Len(mbuf) /\ cursor = Len(mbuf))

\* the bytes of a write vector that were stored
Stored(w) == {i \in 1 .. Len(w) : w[i] # NoWrite}

\* C25: a decoder that succeeds with the capacity len returns a count n
\* with 0 <= n < len, the number of characters it wrote, so that dest[n]
\* lies inside the capacity: for the integer, string, date and time, IP
\* (the placeholder of an invalid address included) and alias decoders.
C25_CountBelowCapacity ==
  (pc = "decoded" /\ um.ub = "none" /\ um.op # "unmarshal_ip" /\ um.ret >= 0) =>
    /\ um.ret < um.len
    /\ \A i \in Stored(um.w) : i <= um.ret \/ (i = um.ret + 1 /\ um.w[i] = 0)

\* C26: unmarshal_str_json, with or without a slice, hands no byte at or
\* after the NUL of the stored string to the escaping, and what it stores is
\* the escaped form of a run of bytes of the string: whole escapes only.
C26_JsonReadsOnlyString ==
  (pc = "decoded" /\ um.op = "unmarshal_str" /\ um.json /\ um.ub = "none") =>
    LET val_len == c_strlen(mbuf, 0)
        str == c_str(mbuf, 0)
    IN /\ \A i \in unmarshal_str_json_reads(mbuf, 0, um.len, um.slice) : i < val_len
       /\ \E a \in 0 .. val_len, b \in 0 .. val_len :
            um.w = escape_json(FALSE, SubSeq(str, a + 1, b), b - a)

\* the member a setter stores through
SetterTarget(s, c) ==
  CASE s = "set_client_req_url" -> c.m_client_req_url_str
    [] s = "set_client_req_url_canon" -> c.m_client_req_url_canon_str
    [] s = "set_client_req_unmapped_url_canon" -> c.m_client_req_unmapped_url_canon_str
    [] s = "set_client_req_unmapped_url_host" -> c.m_client_req_unmapped_url_host_str
    [] OTHER -> c.m_client_req_unmapped_url_path_str

\* C27: no setter stores through a null string pointer or into the
\* process-wide sentinel: after any sequence of init, encoder and setter
\* calls the bytes of INVALID_STR are as they were at the start.
C27_SentinelUntouched ==
  /\ heap["INVALID_STR"] = INVALID_STR_INIT \o <<0>>
  /\ (last.op = "set" /\ last.w # <<>>) =>
       SetterTarget(last.field, ctx) \notin {NULLP, INVALID_STR}

\* the step is a setter call on the context
SetterStep ==
  /\ pc = "ready"
  /\ last'.op = "set"

\* the fields that encode the string a setter rewrites
SetterFields(s) ==
  CASE s = "set_client_req_url" -> {"client_req_url"}
    [] s = "set_client_req_url_canon" -> {"client_req_url_canon"}
    [] s = "set_client_req_unmapped_url_canon" -> {"client_req_unmapped_url_canon"}
    [] s = "set_client_req_unmapped_url_host" -> {"client_req_unmapped_url_host"}
    [] s = "set_client_req_unmapped_url_path" -> {"client_req_unmapped_url_path"}
    [] OTHER -> {"client_req_unmapped_url_path", "client_req_url_path"}

\* C28: a setter call leaves every cached pointer as it was and makes no
\* recorded length larger; the bytes it stores lie within the object of the
\* string it rewrites; and the encoder of that string then returns a length
\* no larger than it did before the call.
C28_SettersOnlyShrink ==
  [][SetterStep =>
       /\ \A m \in CachedStrings :
            ctx'[m[1]] = ctx[m[1]] /\ ctx'[m[2]] <= ctx[m[2]]
       /\ Len(last'.w) <= last'.alloc
       /\ \A f \in SetterFields(last'.field) :
            Marshal(f, ctx', heap', txn, debug, FALSE).len
              <= Marshal(f, ctx, heap, txn, debug, FALSE).len]_vars

\* --------------------------------------------------- cache_fill harness

\* the hook calls made on one transaction in the model
MaxHookCalls == 2

InitCacheFill ==
  /\ txn = BaseTxn
  /\ debug = FALSE
  /\ ctx = CtxNew
  /\ heap = HeapNew(txn)
  /\ mbuf = <<>>
  /\ last = NoCall
  /\ pc = "new"
  /\ fmt = <<>>
  /\ rs = NoResolve
  /\ cursor = 0
  /\ um = NoDecode
  /\ \E config \in BOOLEAN, internal \in BOOLEAN, no_store \in BOOLEAN,
        status \in LookupStatuses :
       cf = [NoPlugin EXCEPT !.config = config, !.internal = internal,
                             !.no_store = no_store, !.lookupStatus = status,
                             !.state = "running"]

\* the state machine reaches the hook after a cache lookup and calls the
\* continuation; the transaction waits for TSHttpTxnReenable
CallHook ==
  /\ cf.state = "running"
  /\ cf.calls < MaxHookCalls
  /\ \E event \in HookEvents, status \in LookupStatuses :
       cf' = [cf EXCEPT !.state = "hook", !.event = event,
                        !.lookupStatus = status, !.calls = @ + 1,
                        !.reenabled = 0, !.reenable_event = TS_EVENT_NONE]
  /\ UNCHANGED <<txn, debug, ctx, heap, mbuf, last, pc, fmt, rs, cursor, um>>

\* the continuation runs cont_handle_cache
ContHandleCache ==
  /\ cf.state = "hook"
  /\ \E a \in Answers : cf' = cont_handle_cache(cf, a)
  /\ UNCHANGED <<txn, debug, ctx, heap, mbuf, last, pc, fmt, rs, cursor, um>>

NextCacheFill == CallHook \/ ContHandleCache

SpecCacheFill == InitCacheFill /\ [][NextCacheFill]_vars

\* one invocation of cont_handle_cache
HandlerStep == cf.state = "hook" /\ cf' # cf

\* C29: every invocation of cont_handle_cache ends with the transaction
\* re-enabled exactly once, with TS_EVENT_HTTP_CONTINUE, and running again.
C29_ReenabledOnce ==
  [][HandlerStep =>
       /\ cf'.reenabled = 1
       /\ cf'.reenable_event = TS_EVENT_HTTP_CONTINUE
       /\ cf'.state = "running"]_vars

\* C30: an invocation of cont_handle_cache sets server no-store and the
\* lookup status MISS exactly when it scheduled a background fetch, and
\* leaves both as they were otherwise; it schedules one only for a
\* transaction that is not internal, whose lookup status is MISS or
\* HIT_STALE, whose response is not no-store, whose client request was
\* obtained and whose BgFetchData was initialized and acquired the URL; and
\* every BgFetchData it created and did not schedule is deleted.
C30_NoStoreIffScheduled ==
  [][HandlerStep =>
       LET scheduled == cf'.scheduled - cf.scheduled
           created == cf'.created - cf.created
           deleted == cf'.deleted - cf.deleted
       IN /\ scheduled \in {0, 1}
          /\ cf'.requested <=> scheduled = 1
          /\ scheduled = 1 =>
               /\ cf'.no_store /\ cf'.lookupStatus = TS_CACHE_LOOKUP_MISS
               /\ ~cf.internal
               /\ cf.lookupStatus \in {TS_CACHE_LOOKUP_MISS, TS_CACHE_LOOKUP_HIT_STALE}
               /\ ~cf.no_store
               /\ cf'.a.clientReqGet /\ cf'.a.initialize /\ cf'.a.acquireUrl
          /\ scheduled = 0 =>
               /\ cf'.no_store = cf.no_store
               /\ cf'.lookupStatus = cf.lookupStatus
          /\ created = scheduled + deleted]_vars

\* a fetch was given up and its BgFetchData deleted in one invocation, and
\* the next one scheduled a fetch and set no-store and MISS
C30_Witness ==
  /\ cf.state = "running"
  /\ cf.calls = 2
  /\ cf.requested
  /\ cf.scheduled = 1
  /\ cf.deleted = 1
  /\ cf.no_store
  /\ cf.lookupStatus = TS_CACHE_LOOKUP_MISS

====
